---- MODULE Spec2Model ----
(***************************************************************************)
(* Game X Character Builder: a model of the canonical character schema     *)
(* (public/character-schema.js), the builder wizard pages (profile, class, *)
(* attributes), their shared helpers (builder-common.js, builder-nav.js),  *)
(* the stored character document, the sign-in handlers of the pages, the   *)
(* sheet editor (app.js: debounced saves, cloud saves and portrait, the    *)
(* derived display), the class list loader and the game-data exporter      *)
(* (scripts/export-game-data.mjs).                                         *)
(*                                                                         *)
(* Text is a sequence of one-character strings, so that trimming,          *)
(* collapsing and slicing are computed as the code computes them.          *)
(* A JavaScript value handed to toInt is a tagged record: a number, a      *)
(* string or undefined.                                                    *)
(*                                                                         *)
(* The status line and the error banner of the wizard pages are the        *)
(* variable ui.  A portrait file is pending only where the portrait        *)
(* handlers of the profile step are among the actions.  A value a handler  *)
(* computes once and reads several times is the parameter of a local       *)
(* operator, named as the code names it.                                   *)
(***************************************************************************)
EXTENDS Integers, Sequences, FiniteSets, TLC

VARIABLES
  call,        \* the last call of a rule-math helper or exporter pass: arguments and result
  normRun,     \* the last run of normalizeCharacterDoc: raw, once, twice
  db,          \* the stored character document
  loc,         \* the page the browser shows: a step id, or the editor
  currentDoc,  \* the page's copy of the document (currentDoc)
  sel,         \* class step: selectedClassKey, selectedPrimary, selectedLevel, the two Sets
  att,         \* attributes step: level, primaryAttr and the six inputs
  prof,        \* profile step: the name input, portraitPath, pendingPortraitFile
  run,         \* main() or the save handler in progress, and its locals
  hist,        \* history: how the page was reached, what the last write was
  ui,          \* what the page shows: the status line and the error banner
  ed,          \* the sheet editor: form, storage, cloud, timers, and the saves made
  saving       \* class step: the saveClassStep calls in progress, where they may overlap

pureVars == <<call, normRun, ed, saving>>
wizardVars == <<db, loc, currentDoc, sel, att, prof, run, hist, ui>>
ruleVars == <<call, wizardVars, ed, saving>>
normVars == <<normRun, wizardVars, ed, saving>>
vars == <<call, normRun, db, loc, currentDoc, sel, att, prof, run, hist, ui, ed, saving>>

(***************************************************************************)
(* Text primitives                                                         *)
(***************************************************************************)

\* JavaScript \s characters of the model's alphabet.
Whitespace == {" ", "\t", "\n", "\r"}

\* Characters removed by stripControlChars (the form feed U+000C is one).
ControlChars == {"\f"}

Rep(c, n) == [i \in 1..n |-> c]

Min2(a, b) == IF a <= b THEN a ELSE b
Max2(a, b) == IF a >= b THEN a ELSE b

\* s.replace(/[control characters]/g, "")
DropControl(s) == SelectSeq(s, LAMBDA c : c \notin ControlChars)

stripControlChars(s) == DropControl(s)

\* The positions of s that hold no whitespace.
InkPositions(s) == {i \in 1..Len(s) : s[i] \notin Whitespace}

TrimLeft(s) ==
  LET ink == InkPositions(s)
  IN IF ink = {} THEN <<>>
     ELSE SubSeq(s, CHOOSE i \in ink : \A j \in ink : i <= j, Len(s))

TrimRight(s) ==
  LET ink == InkPositions(s)
  IN IF ink = {} THEN <<>>
     ELSE SubSeq(s, 1, CHOOSE i \in ink : \A j \in ink : i >= j)

Trim(s) == TrimRight(TrimLeft(s))

\* s.replace(/\s+/g, " "): every run of whitespace becomes one space (the
\* first character of the run is kept, as a space; the rest of it is dropped).
CollapseRuns(s) ==
  LET kept == SelectSeq([i \in 1..Len(s) |-> i],
                        LAMBDA i : s[i] \notin Whitespace \/ i = 1 \/ s[i - 1] \notin Whitespace)
  IN [j \in 1..Len(kept) |-> IF s[kept[j]] \in Whitespace THEN " " ELSE s[kept[j]]]

collapseSpaces(s) == Trim(CollapseRuns(s))

Slice(s, n) == IF Len(s) > n THEN SubSeq(s, 1, n) ELSE s

UpperLetters ==
  <<"A", "B", "C", "D", "E", "F", "G", "H", "I", "J", "K", "L", "M",
    "N", "O", "P", "Q", "R", "S", "T", "U", "V", "W", "X", "Y", "Z">>
LowerLetters ==
  <<"a", "b", "c", "d", "e", "f", "g", "h", "i", "j", "k", "l", "m",
    "n", "o", "p", "q", "r", "s", "t", "u", "v", "w", "x", "y", "z">>

LowerChar(c) ==
  IF \E i \in 1..26 : UpperLetters[i] = c
  THEN LowerLetters[CHOOSE i \in 1..26 : UpperLetters[i] = c]
  ELSE c

toLowerCase(s) == [i \in 1..Len(s) |-> LowerChar(s[i])]

sanitizeText(value, maxLen, collapse) ==
  LET Tidied(s0) == IF collapse THEN collapseSpaces(s0) ELSE Trim(s0)
  IN Slice(Tidied(stripControlChars(value)), maxLen)

(***************************************************************************)
(* JavaScript values, String(value) and Number.parseInt(text, 10)          *)
(***************************************************************************)

Num(n) == [t |-> "num", n |-> n, s |-> <<>>]
Str(s) == [t |-> "str", n |-> 0, s |-> s]
Undefined == [t |-> "undef", n |-> 0, s |-> <<>>]

Digits == <<"0", "1", "2", "3", "4", "5", "6", "7", "8", "9">>
DigitChars == {Digits[i] : i \in 1..10}
DigitValue(c) == (CHOOSE i \in 1..10 : Digits[i] = c) - 1

RECURSIVE NatToText(_)
NatToText(n) ==
  IF n < 10 THEN <<Digits[n + 1]>>
  ELSE NatToText(n \div 10) \o <<Digits[(n % 10) + 1]>>

\* String(value)
JsString(v) ==
  CASE v.t = "num" -> IF v.n < 0 THEN <<"-">> \o NatToText(-v.n) ELSE NatToText(v.n)
    [] v.t = "str" -> v.s
    [] OTHER -> <<"u", "n", "d", "e", "f", "i", "n", "e", "d">>

RECURSIVE DigitPrefixValue(_, _)
DigitPrefixValue(s, acc) ==
  IF s = <<>> \/ Head(s) \notin DigitChars THEN acc
  ELSE DigitPrefixValue(Tail(s), 10 * acc + DigitValue(Head(s)))

\* Number.parseInt(s, 10): leading whitespace, an optional sign, then the
\* longest prefix of digits; NaN (ok = FALSE) when there is no digit.
ParseInt10(s) ==
  LET Number(neg, body) ==
        [ok |-> body # <<>> /\ Head(body) \in DigitChars,
         v |-> IF neg THEN -DigitPrefixValue(body, 0) ELSE DigitPrefixValue(body, 0)]
      Signed(t) ==
        Number(t # <<>> /\ Head(t) = "-",
               IF t # <<>> /\ Head(t) \in {"-", "+"} THEN Tail(t) ELSE t)
  IN Signed(TrimLeft(s))

\* A toInt that forgets the upper limit.
toIntNoMax(value, min, max) ==
  LET Clamped(p) == IF ~p.ok THEN min ELSE Max2(min, p.v)
  IN Clamped(ParseInt10(JsString(value)))

toInt(value, min, max) ==
  LET Clamped(p) == IF ~p.ok THEN min ELSE Max2(min, Min2(max, p.v))
  IN Clamped(ParseInt10(JsString(value)))

LevelMin == 1
LevelMax == 12

clampLevel(level) == toInt(level, LevelMin, LevelMax)

(***************************************************************************)
(* Attribute keys, normalisation and caps                                  *)
(***************************************************************************)

A_strength == <<"s", "t", "r", "e", "n", "g", "t", "h">>
A_agility == <<"a", "g", "i", "l", "i", "t", "y">>
A_intellect == <<"i", "n", "t", "e", "l", "l", "e", "c", "t">>
A_willpower == <<"w", "i", "l", "l", "p", "o", "w", "e", "r">>
A_attunement == <<"a", "t", "t", "u", "n", "e", "m", "e", "n", "t">>
A_heart == <<"h", "e", "a", "r", "t">>

ATTR_KEYS == <<A_strength, A_agility, A_intellect, A_willpower, A_attunement, A_heart>>
AttrKeySet == {ATTR_KEYS[i] : i \in 1..Len(ATTR_KEYS)}

\* String(v || "").trim().toLowerCase(), kept only if it is one of the six keys.
coerceAttrKey(v) ==
  LET s == toLowerCase(Trim(v)) IN IF s \in AttrKeySet THEN s ELSE <<>>

AttrMin == 0
AttrMax == 99

\* obj maps each attribute key to a JavaScript value.
normalizeAttributes(obj) == [k \in AttrKeySet |-> toInt(obj[k], AttrMin, AttrMax)]

PointsBase == 12
PointsPerLevel == 3
CapBase == 4

getAttributePointsToSpend(level) ==
  LET L == clampLevel(level) IN PointsBase + PointsPerLevel * (L - 1)

getAttributeFinalCap(level) ==
  LET L == clampLevel(level) IN CapBase + (L \div 2)

\* The early-game penalty applied whether or not a primary attribute is set.
getAttributeEffectiveCapNoPrimaryGuard(level, attrKey, primaryAttrKey) ==
  LET Limit(L, cap, a, p) ==
        IF a = <<>> THEN cap
        ELSE IF L <= 2 /\ a # p THEN Max2(0, cap - 1)
        ELSE cap
      AtLevel(L) ==
        Limit(L, getAttributeFinalCap(Num(L)), coerceAttrKey(attrKey),
              coerceAttrKey(primaryAttrKey))
  IN AtLevel(clampLevel(level))

getAttributeEffectiveCap(level, attrKey, primaryAttrKey) ==
  LET Limit(L, cap, a, p) ==
        IF a = <<>> THEN cap
        ELSE IF L <= 2 /\ p # <<>> /\ a # p THEN Max2(0, cap - 1)
        ELSE cap
      AtLevel(L) ==
        Limit(L, getAttributeFinalCap(Num(L)), coerceAttrKey(attrKey),
              coerceAttrKey(primaryAttrKey))
  IN AtLevel(clampLevel(level))

(***************************************************************************)
(* Field sanitisers and normalizeCharacterDoc                              *)
(*                                                                         *)
(* A character document is a record of its builder fields.  level,         *)
(* schemaVersion and the attribute values are JavaScript values; texts are *)
(* character sequences; hasAbilities tells whether sheet.repeatables has   *)
(* the key "abilities".                                                    *)
(***************************************************************************)

CHARACTER_SCHEMA_VERSION == 3
SchemaVersionMax == 9999

NameMaxLen == 64
ClassKeyMaxLen == 64
PathMaxLen == 256
OwnerUidMaxLen == 128
SelectionMaxItems == 200
SelectionMaxLen == 160
AutoNamesMaxItems == 500
AutoNamesMaxLen == 200
VisitedMaxItems == 50
VisitedMaxLen == 64
AbilityNameMaxLen == 120
AbilityTextMaxLen == 4000
AbilitiesMaxItems == 200

sanitizeCharName(value) == sanitizeText(value, NameMaxLen, TRUE)

\* The characters of /^[a-zA-Z0-9_\-./]+$/.
PathChars ==
  {UpperLetters[i] : i \in 1..26} \cup {LowerLetters[i] : i \in 1..26}
  \cup {"0", "1", "2", "3", "4", "5", "6", "7", "8", "9"} \cup {"_", "-", ".", "/"}

sanitizeStoragePath(value) ==
  LET Checked(s) ==
        IF s = <<>> THEN <<>>
        ELSE IF \A i \in 1..Len(s) : s[i] \in PathChars THEN s
        ELSE <<>>
  IN Checked(sanitizeText(value, PathMaxLen, TRUE))

\* The loop of sanitizeStringArray: arr is what is left to read, out what was
\* pushed so far; the loop breaks once out holds maxItems entries.
RECURSIVE StringArrayLoop(_, _, _, _)
StringArrayLoop(arr, out, maxItems, maxLen) ==
  IF arr = <<>> THEN out
  ELSE LET Push(s) ==
             IF s = <<>> THEN StringArrayLoop(Tail(arr), out, maxItems, maxLen)
             ELSE IF Len(out) + 1 >= maxItems THEN Append(out, s)
             ELSE StringArrayLoop(Tail(arr), Append(out, s), maxItems, maxLen)
       IN Push(sanitizeText(Head(arr), maxLen, TRUE))

sanitizeStringArray(v, maxItems, maxLen) == StringArrayLoop(v, <<>>, maxItems, maxLen)

RECURSIVE AbilitiesLoop(_, _)
AbilitiesLoop(arr, out) ==
  IF arr = <<>> THEN out
  ELSE LET Push(name, text) ==
             IF name = <<>> /\ text = <<>> THEN AbilitiesLoop(Tail(arr), out)
             ELSE IF Len(out) + 1 >= AbilitiesMaxItems
                  THEN Append(out, [name |-> name, text |-> text])
             ELSE AbilitiesLoop(Tail(arr), Append(out, [name |-> name, text |-> text]))
       IN Push(sanitizeText(Head(arr).name, AbilityNameMaxLen, TRUE),
               sanitizeText(Head(arr).text, AbilityTextMaxLen, FALSE))

sanitizeRepeatableAbilities(v) == AbilitiesLoop(v, <<>>)

createDefaultCharacterDoc(ownerUid) ==
  [ schemaVersion |-> Num(CHARACTER_SCHEMA_VERSION),
    ownerUid |-> sanitizeText(ownerUid, OwnerUidMaxLen, TRUE),
    name |-> <<>>,
    portraitPath |-> <<>>,
    level |-> Num(1),
    classKey |-> <<>>,
    primaryAttribute |-> <<>>,
    attributes |-> [k \in AttrKeySet |-> Num(0)],
    selectedClassFeatureOptions |-> <<>>,
    selectedFeats |-> <<>>,
    autoAbilityNames |-> <<>>,
    visitedSteps |-> <<>>,
    hasAbilities |-> FALSE,
    abilities |-> <<>> ]

\* b.level ?? 1
OrOne(v) == IF v.t = "undef" THEN Num(1) ELSE v

\* The attributes of a document clamped to the caps and minimums of its
\* level and primary attribute (used by normalizeCharacterDoc and by
\* buildAttributesUpdatePatch).
ClampAttributes(attributes, level, primary) ==
  LET attrs == normalizeAttributes(attributes)
  IN [k \in AttrKeySet |->
        LET cap == getAttributeEffectiveCap(Num(level), k, primary)
            min == IF primary # <<>> /\ k = primary THEN 1 ELSE 0
        IN toInt(Num(attrs[k]), min, cap)]

normalizeCharacterDoc(raw) ==
  LET version == IF raw.schemaVersion.t = "undef" THEN Num(CHARACTER_SCHEMA_VERSION)
                 ELSE raw.schemaVersion
      Normalized(level, primary) ==
        [ schemaVersion |-> Num(toInt(version, 0, SchemaVersionMax)),
          ownerUid |-> sanitizeText(raw.ownerUid, OwnerUidMaxLen, TRUE),
          name |-> sanitizeCharName(raw.name),
          portraitPath |-> sanitizeStoragePath(raw.portraitPath),
          level |-> Num(level),
          classKey |-> sanitizeText(raw.classKey, ClassKeyMaxLen, TRUE),
          primaryAttribute |-> primary,
          attributes |->
            LET attrs == ClampAttributes(raw.attributes, level, primary)
            IN [k \in AttrKeySet |-> Num(attrs[k])],
          selectedClassFeatureOptions |->
            sanitizeStringArray(raw.selectedClassFeatureOptions, SelectionMaxItems, SelectionMaxLen),
          selectedFeats |->
            sanitizeStringArray(raw.selectedFeats, SelectionMaxItems, SelectionMaxLen),
          autoAbilityNames |->
            sanitizeStringArray(raw.autoAbilityNames, AutoNamesMaxItems, AutoNamesMaxLen),
          visitedSteps |-> sanitizeStringArray(raw.visitedSteps, VisitedMaxItems, VisitedMaxLen),
          hasAbilities |-> raw.hasAbilities,
          abilities |-> IF raw.hasAbilities THEN sanitizeRepeatableAbilities(raw.abilities)
                        ELSE raw.abilities ]
  IN Normalized(clampLevel(OrOne(raw.level)), coerceAttrKey(raw.primaryAttribute))

(***************************************************************************)
(* Derived sheet fields: max HP                                            *)
(***************************************************************************)

HpLabelMaxLen == 16

HpLowBase == 40
HpLowPer == 8
HpMediumBase == 50
HpMediumPer == 10
HpHighBase == 60
HpHighPer == 12

HP_MODELS(tier) ==
  CASE tier = "low" -> [base |-> HpLowBase, per |-> HpLowPer]
    [] tier = "medium" -> [base |-> HpMediumBase, per |-> HpMediumPer]
    [] tier = "high" -> [base |-> HpHighBase, per |-> HpHighPer]

T_low == <<"l", "o", "w">>
T_medium == <<"m", "e", "d", "i", "u", "m">>
T_high == <<"h", "i", "g", "h">>

normalizeHpProgressionLabel(v) ==
  LET Tier(s) ==
        CASE s = T_low -> "low"
          [] s = T_medium -> "medium"
          [] s = T_high -> "high"
          [] OTHER -> ""
  IN Tier(toLowerCase(sanitizeText(v, HpLabelMaxLen, TRUE)))

K_war == <<"w", "a", "r">>
K_mag == <<"m", "a", "g">>
K_rog == <<"r", "o", "g">>
K_new == <<"n", "e", "w">>
K_none == <<"z", "z">>

\* classes.json as getClassHpModel reads it: classKey and hpProgression.
ClassesJson ==
  << [classKey |-> K_war, hpProgression |-> T_high],
     [classKey |-> K_mag, hpProgression |-> <<" ", "M", "e", "d", "i", "u", "m">>],
     [classKey |-> K_rog, hpProgression |-> T_low],
     [classKey |-> K_new, hpProgression |-> <<>>] >>

\* list.find(...): the first entry whose trimmed classKey is the key, if any.
FindClass(list, key) ==
  LET hits == {i \in 1..Len(list) : Trim(list[i].classKey) = key}
  IN IF hits = {} THEN [found |-> FALSE, hpProgression |-> <<>>]
     ELSE LET i == CHOOSE j \in hits : \A h \in hits : j <= h
          IN [found |-> TRUE, hpProgression |-> list[i].hpProgression]

\* A lookup that falls back to the medium tier.
getClassHpModelDefaultMedium(classKey, loadOk) ==
  LET key == sanitizeText(classKey, ClassKeyMaxLen, TRUE)
      Model(prog) == HP_MODELS(IF prog # "" THEN prog ELSE "medium")
  IN Model(IF loadOk
           THEN normalizeHpProgressionLabel(FindClass(ClassesJson, key).hpProgression)
           ELSE "")

\* loadOk: whether loadGameXClasses resolved (TRUE) or threw (FALSE).
getClassHpModel(classKey, loadOk) ==
  LET key == sanitizeText(classKey, ClassKeyMaxLen, TRUE)
      Model(prog) == HP_MODELS(IF prog # "" THEN prog ELSE "low")
  IN Model(IF loadOk
           THEN normalizeHpProgressionLabel(FindClass(ClassesJson, key).hpProgression)
           ELSE "")

computeMaxHP(level, classKey, attributes, loadOk) ==
  LET MaxHP(L, hpModel, str) == hpModel.base + (hpModel.per * (L - 1)) + (str * (L + 2))
  IN MaxHP(clampLevel(level), getClassHpModel(classKey, loadOk),
           normalizeAttributes(attributes)[A_strength])

(***************************************************************************)
(* Class step (builder-class.js): game data and pure helpers               *)
(***************************************************************************)

\* Stands for U+2014 EM DASH in "Class Feature \u2014 name" and "Feat \u2014 name".
EmDash == "="

P_classFeature == <<"C", "l", "a", "s", "s", " ", "F", "e", "a", "t", "u", "r", "e">> \o <<" ", EmDash, " ">>
P_feat == <<"F", "e", "a", "t">> \o <<" ", EmDash, " ">>

G_tough == <<"T", "o", "u", "g", "h">>
G_style == <<"S", "t", "y", "l", "e">>
G_axe == <<"A", "x", "e">>
G_bow == <<"B", "o", "w">>
G_school == <<"S", "c", "h", "o", "o", "l">>
G_fire == <<"F", "i", "r", "e">>
G_ice == <<"I", "c", "e">>
G_cleave == <<"C", "l", "e", "a", "v", "e">>
G_parry == <<"P", "a", "r", "r", "y">>

Feature(classKey, level, name) ==
  [ type |-> "feature", level |-> level, name |-> name, description |-> <<"d">>,
    classKey |-> classKey, chooseCount |-> 0, options |-> <<>> ]

OptionGroup(classKey, level, name, chooseCount, optionNames) ==
  [ type |-> "optionGroup", level |-> level, name |-> name, description |-> <<>>,
    classKey |-> classKey, chooseCount |-> chooseCount,
    options |-> [i \in 1..Len(optionNames) |->
                   [name |-> optionNames[i], description |-> <<"o">>]] ]

\* data/game-x/game-x-data.json as export-game-data.mjs writes it (every text
\* trimmed): two complete classes and one that is not selectable yet (no
\* second primary attribute, no class features).
GameData ==
  [ classes |->
      << [ classKey |-> K_war, name |-> <<"W", "a", "r">>,
           primaryAttributeA |-> <<"S", "t", "r", "e", "n", "g", "t", "h">>, primaryAttributeB |-> A_agility,
           hpProgression |-> T_high, combatTechniqueSkill |-> <<"m">> ],
         [ classKey |-> K_mag, name |-> <<"M", "a", "g">>,
           primaryAttributeA |-> A_intellect, primaryAttributeB |-> A_willpower,
           hpProgression |-> T_medium, combatTechniqueSkill |-> <<"s">> ],
         [ classKey |-> K_new, name |-> <<"N", "e", "w">>,
           primaryAttributeA |-> A_heart, primaryAttributeB |-> <<>>,
           hpProgression |-> <<>>, combatTechniqueSkill |-> <<>> ] >>,
    classFeatures |->
      [ k \in {K_war, K_mag} |->
          IF k = K_war
          THEN << Feature(K_war, 1, G_tough),
                  OptionGroup(K_war, 3, G_style, 1, <<G_axe, G_bow>>) >>
          ELSE << OptionGroup(K_mag, 1, G_school, 1, <<G_fire, G_ice>>) >> ],
    feats |->
      << [classKey |-> K_war, minLevel |-> 1, name |-> G_cleave, description |-> <<"c">>],
         [classKey |-> K_war, minLevel |-> 2, name |-> G_parry, description |-> <<"p">>] >> ]

SafeStrDefaultLen == 200
GroupClassKeyMaxLen == 64
GroupNameMaxLen == 96
OptionNameMaxLen == 120
PrimaryMaxLen == 32

safeStr(v, maxLen) == sanitizeText(v, maxLen, FALSE)

buildGroupId(group) ==
  safeStr(group.classKey, GroupClassKeyMaxLen) \o <<"|", "L">> \o NatToText(group.level)
    \o <<"|">> \o safeStr(group.name, GroupNameMaxLen)

buildOptionKey(group, option) ==
  buildGroupId(group) \o <<":", ":">> \o safeStr(option.name, OptionNameMaxLen)

NoClass ==
  [ classKey |-> <<>>, name |-> <<>>, primaryAttributeA |-> <<>>, primaryAttributeB |-> <<>>,
    hpProgression |-> <<>>, combatTechniqueSkill |-> <<>> ]

\* arr.find(...) || null; found = FALSE stands for null.
getClassByKey(classKey) ==
  LET First(arr, hits) ==
        IF hits = {} THEN [found |-> FALSE, cls |-> NoClass]
        ELSE [found |-> TRUE, cls |-> arr[CHOOSE i \in hits : \A j \in hits : i <= j]]
      Find(arr) == First(arr, {i \in 1..Len(arr) : arr[i].classKey = classKey})
  IN Find(GameData.classes)

\* gameData.classFeatures[classKey], or [] when the key has no entry.
ClassFeaturesOf(classKey) ==
  IF classKey \in DOMAIN GameData.classFeatures THEN GameData.classFeatures[classKey]
  ELSE <<>>

classSelectableInfo(c) ==
  /\ c.found
  /\ c.cls.primaryAttributeA # <<>>
  /\ c.cls.primaryAttributeB # <<>>
  /\ c.cls.hpProgression # <<>>
  /\ c.cls.combatTechniqueSkill # <<>>
  /\ ClassFeaturesOf(c.cls.classKey) # <<>>

getAllowedPrimaryAttributes(c) ==
  LET a == IF c.found THEN coerceAttrKey(c.cls.primaryAttributeA) ELSE <<>>
      b == IF c.found THEN coerceAttrKey(c.cls.primaryAttributeB) ELSE <<>>
  IN SelectSeq(<<a, b>>, LAMBDA k : k # <<>> /\ k \in AttrKeySet)

getFeatSlots(level) == clampLevel(Num(level)) \div 2

computeVisibleClassFeatures(classKey, level) ==
  LET L == clampLevel(Num(level))
  IN SelectSeq(ClassFeaturesOf(classKey), LAMBDA f : f.level <= L)

computeVisibleFeats(classKey, level) ==
  LET L == clampLevel(Num(level))
  IN SelectSeq(SelectSeq(GameData.feats, LAMBDA f : f.classKey = classKey),
               LAMBDA f : f.minLevel <= L)

Range(seq) == {seq[i] : i \in 1..Len(seq)}

\* The option keys of the option groups among the features fs.
OptionKeysOf(fs) ==
  UNION { {buildOptionKey(fs[i], fs[i].options[j]) : j \in 1..Len(fs[i].options)} :
            i \in {n \in 1..Len(fs) : fs[n].type = "optionGroup"} }

\* The in-memory state of the class step: selectedClassKey, selectedPrimary,
\* selectedLevel, and the two Sets in insertion order.
NoSelection ==
  [ selectedClassKey |-> <<>>, selectedPrimary |-> <<>>, selectedLevel |-> 1,
    selectedFeatureOptionKeys |-> <<>>, selectedFeatNames |-> <<>> ]

\* new Set(array): the first occurrence of each element, in order.
SetOrder(arr) ==
  SelectSeq([i \in 1..Len(arr) |-> [i |-> i, v |-> arr[i]]],
            LAMBDA e : \A j \in 1..(e.i - 1) : arr[j] # e.v)

ToSet(arr) ==
  LET Values(o) == [i \in 1..Len(o) |-> o[i].v] IN Values(SetOrder(arr))

SetAdd(seq, x) == IF x \in Range(seq) THEN seq ELSE Append(seq, x)
SetDelete(seq, x) == SelectSeq(seq, LAMBDA y : y # x)

\* A pruning that filters but does not cut the feats to the slot count.
pruneSelectionsNoSlotCap(st) ==
  IF st.selectedClassKey = <<>> THEN st
  ELSE
    LET Allowed(visibleFeats) ==
          {Trim(visibleFeats[i].name) : i \in 1..Len(visibleFeats)} \ {<<>>}
        Kept(allowed) == SelectSeq(st.selectedFeatNames, LAMBDA n : n \in allowed)
        Pruned(feats1, allowedOptKeys) ==
          [st EXCEPT !.selectedFeatNames = feats1,
                     !.selectedFeatureOptionKeys =
                        SelectSeq(st.selectedFeatureOptionKeys, LAMBDA k : k \in allowedOptKeys)]
    IN Pruned(Kept(Allowed(computeVisibleFeats(st.selectedClassKey, st.selectedLevel))),
              OptionKeysOf(computeVisibleClassFeatures(st.selectedClassKey, st.selectedLevel)))

pruneSelectionsForLevel(st) ==
  IF st.selectedClassKey = <<>> THEN st
  ELSE
    LET Allowed(visibleFeats) ==
          {Trim(visibleFeats[i].name) : i \in 1..Len(visibleFeats)} \ {<<>>}
        Kept(allowed) == SelectSeq(st.selectedFeatNames, LAMBDA n : n \in allowed)
        Cut(feats1, maxSlots) ==
          IF Len(feats1) > maxSlots THEN SubSeq(feats1, 1, maxSlots) ELSE feats1
        Pruned(feats2, allowedOptKeys) ==
          [st EXCEPT !.selectedFeatNames = feats2,
                     !.selectedFeatureOptionKeys =
                        SelectSeq(st.selectedFeatureOptionKeys, LAMBDA k : k \in allowedOptKeys)]
    IN Pruned(Cut(Kept(Allowed(computeVisibleFeats(st.selectedClassKey, st.selectedLevel))),
                  getFeatSlots(st.selectedLevel)),
              OptionKeysOf(computeVisibleClassFeatures(st.selectedClassKey, st.selectedLevel)))

\* The number of options of group g whose key is selected.
PickedIn(g, keys) ==
  Cardinality({j \in 1..Len(g.options) : buildOptionKey(g, g.options[j]) \in Range(keys)})

\* A validation that lets unfinished option groups through.
validateBeforeSaveAnyPicks(st) ==
  LET Verdict(c) ==
        IF ~c.found THEN [ok |-> FALSE, msg |-> "Choose a class."]
        ELSE IF ~classSelectableInfo(c)
             THEN [ok |-> FALSE, msg |-> "This class is not selectable yet."]
        ELSE IF \/ st.selectedPrimary = <<>>
                \/ st.selectedPrimary \notin Range(getAllowedPrimaryAttributes(c))
             THEN [ok |-> FALSE, msg |-> "Choose a Primary Attribute."]
        ELSE IF Len(st.selectedFeatNames) > getFeatSlots(st.selectedLevel)
             THEN [ok |-> FALSE, msg |-> "Too many feats selected."]
        ELSE [ok |-> TRUE, msg |-> ""]
  IN Verdict(getClassByKey(st.selectedClassKey))

\* validateBeforeSave: ok, or the message shown.
validateBeforeSave(st) ==
  LET Unfinished(visible) ==
        {i \in 1..Len(visible) :
           /\ visible[i].type = "optionGroup"
           /\ visible[i].chooseCount # 0
           /\ PickedIn(visible[i], st.selectedFeatureOptionKeys) # visible[i].chooseCount}
      Verdict(c, unfinished) ==
        IF ~c.found THEN [ok |-> FALSE, msg |-> "Choose a class."]
        ELSE IF ~classSelectableInfo(c)
             THEN [ok |-> FALSE, msg |-> "This class is not selectable yet."]
        ELSE IF \/ st.selectedPrimary = <<>>
                \/ st.selectedPrimary \notin Range(getAllowedPrimaryAttributes(c))
             THEN [ok |-> FALSE, msg |-> "Choose a Primary Attribute."]
        ELSE IF unfinished # {} THEN [ok |-> FALSE, msg |-> "Finish selecting options."]
        ELSE IF Len(st.selectedFeatNames) > getFeatSlots(st.selectedLevel)
             THEN [ok |-> FALSE, msg |-> "Too many feats selected."]
        ELSE [ok |-> TRUE, msg |-> ""]
  IN Verdict(getClassByKey(st.selectedClassKey),
             Unfinished(computeVisibleClassFeatures(st.selectedClassKey, st.selectedLevel)))

\* The selected options of the option groups among fs, group by group.
RECURSIVE SelectedOptionAbilities(_, _)
SelectedOptionAbilities(fs, keys) ==
  IF fs = <<>> THEN <<>>
  ELSE LET Picked(g) ==
             IF g.type # "optionGroup" THEN <<>>
             ELSE SelectSeq(g.options,
                    LAMBDA o : buildOptionKey(g, o) \in Range(keys) /\ Trim(o.name) # <<>>)
           Entries(picked) ==
             [i \in 1..Len(picked) |->
                [name |-> P_classFeature \o Trim(picked[i].name),
                 text |-> Trim(picked[i].description)]]
       IN Entries(Picked(Head(fs))) \o SelectedOptionAbilities(Tail(fs), keys)

buildAutoAbilities(st) ==
  IF st.selectedClassKey = <<>> THEN <<>>
  ELSE
    LET FixedEntries(fixed) ==
          [i \in 1..Len(fixed) |->
             [name |-> P_classFeature \o Trim(fixed[i].name),
              text |-> Trim(fixed[i].description)]]
        FromFeatures(visible) ==
          FixedEntries(SelectSeq(visible, LAMBDA f : f.type = "feature" /\ Trim(f.name) # <<>>))
          \o SelectedOptionAbilities(visible, st.selectedFeatureOptionKeys)
        \* new Map(entries): the last feat of a name wins.
        featOf(visibleFeats, n) ==
          visibleFeats[CHOOSE i \in 1..Len(visibleFeats) :
             /\ Trim(visibleFeats[i].name) = n
             /\ \A j \in (i + 1)..Len(visibleFeats) : Trim(visibleFeats[j].name) # n]
        FeatEntries(visibleFeats, known) ==
          [i \in 1..Len(known) |->
             [name |-> P_feat \o known[i],
              text |-> Trim(featOf(visibleFeats, known[i]).description)]]
        FromFeats(visibleFeats) ==
          FeatEntries(visibleFeats,
            SelectSeq(st.selectedFeatNames,
              LAMBDA n : \E i \in 1..Len(visibleFeats) : Trim(visibleFeats[i].name) = n))
        AtLevel(L) ==
          FromFeatures(computeVisibleClassFeatures(st.selectedClassKey, L))
          \o FromFeats(computeVisibleFeats(st.selectedClassKey, L))
    IN AtLevel(clampLevel(Num(st.selectedLevel)))

\* A merge that keeps nothing of the existing list.
mergeAbilitiesAutoOnly(existingAbilities, oldAutoNames, newAutoAbilities) ==
  newAutoAbilities

\* A merge that never removes the previous auto-generated entries.
mergeAbilitiesKeepAll(existingAbilities, oldAutoNames, newAutoAbilities) ==
  existingAbilities \o newAutoAbilities

mergeAbilities(existingAbilities, oldAutoNames, newAutoAbilities) ==
  LET oldSet == Range(oldAutoNames)
      kept == SelectSeq(existingAbilities, LAMBDA it : Trim(it.name) \notin oldSet)
  IN kept \o newAutoAbilities

\* renderPrimaryOptions: an invalid primary falls back to the first allowed one.
renderPrimaryOptions(st) ==
  LET Rendered(allowed) ==
        IF st.selectedPrimary # <<>> /\ st.selectedPrimary \in Range(allowed) THEN st
        ELSE [st EXCEPT !.selectedPrimary = IF allowed = <<>> THEN <<>> ELSE allowed[1]]
  IN Rendered(getAllowedPrimaryAttributes(getClassByKey(st.selectedClassKey)))

\* updateUiForSelection: primary options are rendered, the selections pruned,
\* and features and feats rendered from the pruned state.
updateUiForSelection(st) == pruneSelectionsForLevel(renderPrimaryOptions(st))

(***************************************************************************)
(* Builder flow (builder-flow.js), update patches and the stored document  *)
(***************************************************************************)

S_basics == <<"b", "a", "s", "i", "c", "s">>
S_class == <<"c", "l", "a", "s", "s">>
S_attributes == <<"a", "t", "t", "r", "i", "b", "u", "t", "e", "s">>
\* editor.html, the page "Save and open sheet" goes to.
P_editor == <<"e", "d", "i", "t", "o", "r">>

BUILDER_STEPS == <<S_basics, S_class, S_attributes>>

\* steps.findIndex(...) + 1; 0 when the id is no step.
StepIndex(id) ==
  IF id \in Range(BUILDER_STEPS) THEN CHOOSE i \in 1..Len(BUILDER_STEPS) : BUILDER_STEPS[i] = id
  ELSE 0

getPrevNext(id) ==
  LET index == StepIndex(id)
  IN [ hasPrev |-> index > 1,
       prev |-> IF index > 1 THEN BUILDER_STEPS[index - 1] ELSE <<>>,
       hasNext |-> index >= 1 /\ index < Len(BUILDER_STEPS),
       next |-> IF index >= 1 /\ index < Len(BUILDER_STEPS) THEN BUILDER_STEPS[index + 1]
                ELSE <<>> ]

\* The dot paths of an update patch, segment by segment.
F_schemaVersion == <<"schemaVersion">>
F_name == <<"builder", "name">>
F_portraitPath == <<"builder", "portraitPath">>
F_level == <<"builder", "level">>
F_classKey == <<"builder", "classKey">>
F_primaryAttribute == <<"builder", "primaryAttribute">>
F_attributes == <<"builder", "attributes">>
F_selectedClassFeatureOptions == <<"builder", "selectedClassFeatureOptions">>
F_selectedFeats == <<"builder", "selectedFeats">>
F_autoAbilityNames == <<"builder", "autoAbilityNames">>
F_visitedSteps == <<"builder", "visitedSteps">>
F_abilities == <<"builder", "sheet", "repeatables", "abilities">>
F_lastVisitedAt == <<"builder", "lastVisitedAt">>
F_ownerUid == <<"ownerUid">>
F_updatedAt == <<"updatedAt">>

GateClassKeyMaxLen == 64
GateArrayMaxItems == 500
GateArrayMaxLen == 200

\* The schema gate: only schemaVersion and builder.* keys pass, and the keys
\* the gate knows are sanitised.
\* A gate that lets every key through.
sanitizeUpdatePatchOpen(patch) == patch

sanitizeUpdatePatch(patch) ==
  LET keep == {k \in DOMAIN patch : k = F_schemaVersion \/ (Len(k) >= 2 /\ k[1] = "builder")}
  IN [k \in keep |->
        CASE k = F_schemaVersion -> Num(toInt(patch[k], 0, SchemaVersionMax))
          [] k = F_name -> sanitizeCharName(patch[k])
          [] k = F_portraitPath -> sanitizeStoragePath(patch[k])
          [] k = F_level -> Num(clampLevel(patch[k]))
          [] k = F_classKey -> sanitizeText(patch[k], GateClassKeyMaxLen, TRUE)
          [] k = F_primaryAttribute -> coerceAttrKey(patch[k])
          [] k = F_attributes ->
               LET a == normalizeAttributes(patch[k]) IN [x \in AttrKeySet |-> Num(a[x])]
          [] k \in {F_selectedClassFeatureOptions, F_selectedFeats, F_autoAbilityNames,
                    F_visitedSteps} ->
               sanitizeStringArray(patch[k], GateArrayMaxItems, GateArrayMaxLen)
          [] k = F_abilities -> sanitizeRepeatableAbilities(patch[k])
          [] OTHER -> patch[k]]

buildProfileUpdatePatch(name, portraitPath) ==
  (F_schemaVersion :> Num(CHARACTER_SCHEMA_VERSION))
  @@ (F_name :> sanitizeCharName(name))
  @@ (F_portraitPath :> sanitizeStoragePath(portraitPath))

\* level is a number, attributes maps each key to a number.
buildAttributesUpdatePatch(level, attributes, primaryAttribute) ==
  LET Patch(L, primary) ==
        (F_schemaVersion :> Num(CHARACTER_SCHEMA_VERSION))
        @@ (F_level :> Num(L))
        @@ (F_primaryAttribute :> primary)
        @@ (F_attributes :>
              LET attrs == ClampAttributes([k \in AttrKeySet |-> Num(attributes[k])], L, primary)
              IN [k \in AttrKeySet |-> Num(attrs[k])])
  IN Patch(clampLevel(Num(level)), coerceAttrKey(primaryAttribute))

\* The field of the stored document a dot path names.
FieldOf(path) ==
  CASE path = F_schemaVersion -> "schemaVersion"
    [] path = F_name -> "name"
    [] path = F_portraitPath -> "portraitPath"
    [] path = F_level -> "level"
    [] path = F_classKey -> "classKey"
    [] path = F_primaryAttribute -> "primaryAttribute"
    [] path = F_attributes -> "attributes"
    [] path = F_selectedClassFeatureOptions -> "selectedClassFeatureOptions"
    [] path = F_selectedFeats -> "selectedFeats"
    [] path = F_autoAbilityNames -> "autoAbilityNames"
    [] path = F_visitedSteps -> "visitedSteps"
    [] path = F_abilities -> "abilities"
    [] path = F_ownerUid -> "ownerUid"
    [] OTHER -> "none"

\* updateDoc(charRef, data): each path of data replaces its field, the other
\* fields stay as they are.
updateDoc(doc, data) ==
  [f \in DOMAIN doc |->
     IF f = "hasAbilities" THEN doc.hasAbilities \/ F_abilities \in DOMAIN data
     ELSE IF \E k \in DOMAIN data : FieldOf(k) = f
          THEN data[CHOOSE k \in DOMAIN data : FieldOf(k) = f]
          ELSE doc[f]]

\* serverTimestamp(): the value is the server's.
ServerTimestamp == Str(<<"t">>)

\* saveCharacterPatch: { ...cleaned, updatedAt: serverTimestamp() } is what
\* updateDoc receives.
SaveData(patch) == sanitizeUpdatePatch(patch) @@ (F_updatedAt :> ServerTimestamp)

saveCharacterPatch(doc, patch) == updateDoc(doc, SaveData(patch))

\* markStepVisited: the paths its updateDoc names.
MarkPaths == {F_visitedSteps, F_lastVisitedAt}

\* markStepVisited: arrayUnion(stepId) on builder.visitedSteps.
markStepVisited(doc, stepId) ==
  [doc EXCEPT !.visitedSteps = IF stepId \in Range(@) THEN @ ELSE Append(@, stepId)]

\* loadCharacterDoc
loadCharacterDoc(doc) == normalizeCharacterDoc(doc)

\* The document addDoc writes in createCharacter (characters.js): no builder
\* map yet, so every builder field is missing.
NewCharacterDoc ==
  [ schemaVersion |-> Undefined, ownerUid |-> <<"u", "1">>, name |-> <<>>,
    portraitPath |-> <<>>, level |-> Undefined, classKey |-> <<>>,
    primaryAttribute |-> <<>>, attributes |-> [k \in AttrKeySet |-> Undefined],
    selectedClassFeatureOptions |-> <<>>, selectedFeats |-> <<>>,
    autoAbilityNames |-> <<>>, visitedSteps |-> <<>>,
    hasAbilities |-> FALSE, abilities |-> <<>> ]

(***************************************************************************)
(* Page state shared by the three wizard pages                             *)
(***************************************************************************)

\* currentDoc before loadCharacterDoc has resolved.
NoDoc == createDefaultCharacterDoc(<<>>)

NoAtt == [level |-> 1, primaryAttr |-> <<>>, inputs |-> [k \in AttrKeySet |-> <<"0">>]]
\* The profile step before its page has read the document: the name input,
\* portraitPath, and whether pendingPortraitFile holds a file.
NoProf == [charName |-> <<>>, portraitPath |-> <<>>, pendingPortraitFile |-> FALSE]

LoadingRun == [pc |-> "loading"]
IdleRun == [pc |-> "idle"]

NoNav == [via |-> "none", from |-> <<>>, ok |-> FALSE, stored |-> FALSE]
NoWrite == [step |-> <<>>, confirmed |-> FALSE, second |-> FALSE]
NoPre == [any |-> FALSE, accurate |-> FALSE, collision |-> FALSE]

\* The history before any navigation or write.
NoHist == [nav |-> NoNav, loadedWithClass |-> FALSE, pre |-> NoPre, w |-> NoWrite]

\* setStatus and showError / clearError: the text of the status line and of
\* the error banner, which is hidden when its text is empty.
Shown(status, error) == [status |-> status, error |-> error]

NoUi == Shown("", "")
\* initBuilderAuth: setStatus "Loading...", clearError.
LoadingUi == Shown("Loading...", "")
\* The head of a save handler: clearError, setStatus "Saving...".
SavingUi == Shown("Saving...", "")

NoWizard ==
  /\ db = NoDoc /\ loc = <<>> /\ currentDoc = NoDoc /\ sel = NoSelection
  /\ att = NoAtt /\ prof = NoProf /\ run = IdleRun
  /\ hist = NoHist /\ ui = NoUi

\* No sheet editor is open.
NoEd == [open |-> FALSE]

\* No call of a rule-math helper, no run of normalizeCharacterDoc.
NoCall == [fn |-> "none", done |-> TRUE]
NoNorm == [phase |-> "none"]

\* A Next handler that goes on whatever the callback returned.
NextAlwaysNavigates(ok) == TRUE

\* if (!ok) return; in the Next handler of builder-nav.js.
NextMayNavigate(ok) == ok

\* Every path of the patch holds its value in the document.
PatchStored(doc, patch) ==
  \A k \in DOMAIN patch : FieldOf(k) # "none" /\ doc[FieldOf(k)] = patch[k]

\* window.location.href = ...: the page is left and the next page starts loading.
Leave(to, via, ok, stored, h) ==
  /\ loc' = to
  /\ run' = LoadingRun
  /\ currentDoc' = NoDoc
  /\ sel' = NoSelection
  /\ att' = NoAtt
  /\ prof' = NoProf
  /\ hist' = [h EXCEPT !.nav = [via |-> via, from |-> loc, ok |-> ok, stored |-> stored]]
  /\ ui' = LoadingUi

\* A save handler returned cbOk, showing u: the page stays, unless Next
\* called the handler and goes on to the next step.
Finish(by, cbOk, stored, docAfter, h, u) ==
  IF by = "next" /\ NextMayNavigate(cbOk)
  THEN Leave(getPrevNext(loc).next, "next", cbOk, stored, h)
  ELSE /\ run' = IdleRun
       /\ currentDoc' = docAfter
       /\ hist' = h
       /\ ui' = u
       /\ UNCHANGED <<loc, sel, att, prof>>

OnPage(step) == loc = step /\ run.pc = "idle"

\* The Previous link.
NavPrev ==
  /\ run.pc = "idle"
  /\ getPrevNext(loc).hasPrev
  /\ Leave(getPrevNext(loc).prev, "prev", FALSE, FALSE, hist)
  /\ UNCHANGED db

\* A link of the step list: only visited steps other than the current one have one.
NavStepLink(step) ==
  /\ run.pc = "idle"
  /\ loc \in Range(BUILDER_STEPS)
  /\ step # loc
  /\ step \in Range(currentDoc.visitedSteps)
  /\ Leave(step, "link", FALSE, FALSE, hist)
  /\ UNCHANGED db

\* The browser reloads the page.
Reload ==
  /\ run.pc = "idle"
  /\ loc \in Range(BUILDER_STEPS)
  /\ Leave(loc, "reload", FALSE, FALSE, hist)
  /\ UNCHANGED db

(***************************************************************************)
(* Class step (builder-class.js): main, event handlers, saveClassStep      *)
(***************************************************************************)

\* main: the selection hydrated from the loaded document.
HydrateSelection(doc) ==
  [ selectedClassKey |-> doc.classKey,
    selectedPrimary |-> doc.primaryAttribute,
    selectedLevel |-> clampLevel(doc.level),
    selectedFeatureOptionKeys |-> ToSet(doc.selectedClassFeatureOptions),
    selectedFeatNames |-> ToSet(doc.selectedFeats) ]

\* The patch saveClassStep builds.
\* A class patch that writes the whole sheet map in place of the abilities list.
ClassPatchWholeSheet(st, autoNames, mergedAbilities) ==
  (F_level :> Num(clampLevel(Num(st.selectedLevel))))
  @@ (F_classKey :> safeStr(st.selectedClassKey, ClassKeyMaxLen))
  @@ (F_primaryAttribute :> safeStr(st.selectedPrimary, PrimaryMaxLen))
  @@ (F_selectedClassFeatureOptions :> st.selectedFeatureOptionKeys)
  @@ (F_selectedFeats :> st.selectedFeatNames)
  @@ (F_autoAbilityNames :> autoNames)
  @@ (<<"builder", "sheet">> :> mergedAbilities)

ClassPatch(st, autoNames, mergedAbilities) ==
  (F_level :> Num(clampLevel(Num(st.selectedLevel))))
  @@ (F_classKey :> safeStr(st.selectedClassKey, ClassKeyMaxLen))
  @@ (F_primaryAttribute :> safeStr(st.selectedPrimary, PrimaryMaxLen))
  @@ (F_selectedClassFeatureOptions :> st.selectedFeatureOptionKeys)
  @@ (F_selectedFeats :> st.selectedFeatNames)
  @@ (F_autoAbilityNames :> autoNames)
  @@ (F_abilities :> mergedAbilities)

\* The update of the local cache after a class save.
ClassCacheUpdate(doc, st, autoNames, mergedAbilities) ==
  [doc EXCEPT !.level = Num(clampLevel(Num(st.selectedLevel))),
              !.classKey = st.selectedClassKey,
              !.primaryAttribute = st.selectedPrimary,
              !.selectedClassFeatureOptions = st.selectedFeatureOptionKeys,
              !.selectedFeats = st.selectedFeatNames,
              !.autoAbilityNames = autoNames,
              !.hasAbilities = TRUE,
              !.abilities = mergedAbilities]

\* The paths of the class patch that carry the selection set.
SelectionPaths ==
  {F_level, F_classKey, F_primaryAttribute, F_selectedClassFeatureOptions, F_selectedFeats}

\* A selection of class c with every option and every feat picked, at the
\* highest level.
FullSelection(c) ==
  LET Picks(keys, feats) ==
        [ NoSelection EXCEPT
            !.selectedClassKey = c,
            !.selectedLevel = LevelMax,
            !.selectedFeatureOptionKeys =
               CHOOSE q \in [1..Cardinality(keys) -> keys] : Range(q) = keys,
            !.selectedFeatNames = [i \in 1..Len(feats) |-> Trim(feats[i].name)] ]
  IN Picks(OptionKeysOf(ClassFeaturesOf(c)),
           SelectSeq(GameData.feats, LAMBDA f : f.classKey = c))

\* Every ability entry buildAutoAbilities can generate from the game data.
AllAutoAbilities ==
  UNION {Range(buildAutoAbilities(FullSelection(GameData.classes[i].classKey))) :
           i \in 1..Len(GameData.classes)}

\* The auto-generated entries of a list are those equal to a generated
\* ability; the tracked list is accurate when it holds exactly their names.
Accurate(doc) ==
  Range(doc.autoAbilityNames) = {e.name : e \in Range(doc.abilities) \cap AllAutoAbilities}

\* An entry that is not auto-generated bears one of the names.
Collision(doc, names) ==
  \E e \in Range(doc.abilities) \ AllAutoAbilities :
     sanitizeText(e.name, AbilityNameMaxLen, TRUE) \in Range(names)

\* The entries whose name is not in the tracked list.
ManualEntries(abilities, tracked) ==
  SelectSeq(abilities, LAMBDA e : e.name \notin Range(tracked))

\* The stored list is what sanitizeRepeatableAbilities makes of it.
Tidy(abilities) == sanitizeRepeatableAbilities(abilities) = abilities

\* The patch carries the selection set the document already holds.
Rerun(doc, patch) == \A k \in SelectionPaths : doc[FieldOf(k)] = patch[k]

\* main of the class step, once the document and the game data are loaded.
LoadClassPage ==
  /\ loc = S_class /\ run.pc = "loading"
  /\ LET Show(doc) ==
           /\ currentDoc' = doc
           /\ sel' = updateUiForSelection(HydrateSelection(doc))
           /\ hist' = [hist EXCEPT !.loadedWithClass = doc.classKey # <<>>,
                                   !.nav = NoNav, !.w = NoWrite]
           /\ ui' = Shown("Ready.", "")
     IN Show(loadCharacterDoc(db))
  /\ run' = IdleRun
  /\ UNCHANGED <<db, loc, att, prof>>

\* The class select changes.
ClassChange(key) ==
  /\ OnPage(S_class)
  /\ key # sel.selectedClassKey
  /\ sel' = updateUiForSelection(
              [sel EXCEPT !.selectedClassKey = key, !.selectedPrimary = <<>>,
                          !.selectedFeatureOptionKeys = <<>>, !.selectedFeatNames = <<>>])
  /\ UNCHANGED <<db, loc, currentDoc, att, prof, run, hist, ui>>

\* The level select changes to the option whose value is v.
LevelChange(v) ==
  /\ OnPage(S_class)
  /\ LET ChangeTo(L) ==
           /\ L # sel.selectedLevel
           /\ sel' = updateUiForSelection(
                       pruneSelectionsForLevel([sel EXCEPT !.selectedLevel = L]))
     IN ChangeTo(clampLevel(v))
  /\ UNCHANGED <<db, loc, currentDoc, att, prof, run, hist, ui>>

\* The primary-attribute select (disabled for a class that is not selectable).
PrimaryChange(p) ==
  /\ OnPage(S_class)
  /\ LET Offered(c) ==
           /\ ~(c.found /\ ~classSelectableInfo(c))
           /\ p \in Range(getAllowedPrimaryAttributes(c))
     IN Offered(getClassByKey(sel.selectedClassKey))
  /\ p # sel.selectedPrimary
  /\ sel' = [sel EXCEPT !.selectedPrimary = p]
  /\ UNCHANGED <<db, loc, currentDoc, att, prof, run, hist, ui>>

\* The checkbox of option j of the i-th visible feature; an unchecked box is
\* disabled once the group holds chooseCount picks.
ToggleOption(i, j) ==
  /\ OnPage(S_class)
  /\ sel.selectedClassKey # <<>>
  /\ LET Toggle(k, checked, limitReached) ==
           /\ checked \/ ~limitReached
           /\ sel' = [sel EXCEPT !.selectedFeatureOptionKeys =
                        IF checked THEN SetDelete(@, k)
                        ELSE IF limitReached THEN @
                        ELSE SetAdd(@, k)]
         Keyed(f, k) ==
           Toggle(k, k \in Range(sel.selectedFeatureOptionKeys),
                  f.chooseCount > 0
                    /\ PickedIn(f, sel.selectedFeatureOptionKeys) >= f.chooseCount)
         Box(f) == Keyed(f, buildOptionKey(f, f.options[j]))
         Among(visible) ==
           /\ i \in 1..Len(visible)
           /\ visible[i].type = "optionGroup"
           /\ j \in 1..Len(visible[i].options)
           /\ Box(visible[i])
     IN Among(computeVisibleClassFeatures(sel.selectedClassKey, sel.selectedLevel))
  /\ UNCHANGED <<db, loc, currentDoc, att, prof, run, hist, ui>>

\* The checkbox of the i-th visible feat; an unchecked box is disabled once
\* every slot is used.
ToggleFeat(i) ==
  /\ OnPage(S_class)
  /\ sel.selectedClassKey # <<>>
  /\ LET Toggle(name, checked, limitReached) ==
           /\ name # <<>>
           /\ checked \/ ~limitReached
           /\ sel' = [sel EXCEPT !.selectedFeatNames =
                        IF checked THEN SetDelete(@, name)
                        ELSE IF limitReached THEN @
                        ELSE SetAdd(@, name)]
         Box(name, maxSlots) ==
           Toggle(name, name \in Range(sel.selectedFeatNames),
                  Len(sel.selectedFeatNames) >= maxSlots)
         Among(visible, maxSlots) ==
           /\ maxSlots > 0
           /\ i \in 1..Len(visible)
           /\ Box(Trim(visible[i].name), maxSlots)
     IN Among(computeVisibleFeats(sel.selectedClassKey, sel.selectedLevel),
              getFeatSlots(sel.selectedLevel))
  /\ UNCHANGED <<db, loc, currentDoc, att, prof, run, hist, ui>>

\* Save, Save and open sheet, or Next is pressed: saveClassStep up to its
\* first await. The two Save buttons are disabled for a class that is not
\* selectable; Next is not.
E_save == "Could not save."

ClassPress(by) ==
  /\ OnPage(S_class)
  /\ LET Enabled(c) == by = "next" \/ ~(c.found /\ ~classSelectableInfo(c))
     IN Enabled(getClassByKey(sel.selectedClassKey))
  /\ by = "next" => getPrevNext(loc).hasNext
  /\ LET Write(autoNames, mergedAbilities) ==
           /\ run' = [pc |-> "writing", step |-> S_class, by |-> by,
                      patch |-> sanitizeUpdatePatch(ClassPatch(sel, autoNames, mergedAbilities)),
                      autoNames |-> autoNames, mergedAbilities |-> mergedAbilities]
           /\ ui' = SavingUi
           /\ UNCHANGED <<db, loc, currentDoc, sel, att, prof, hist>>
         Merge(autoAbilities) ==
           Write([i \in 1..Len(autoAbilities) |-> autoAbilities[i].name],
                 mergeAbilities(currentDoc.abilities, currentDoc.autoAbilityNames,
                                autoAbilities))
         Judged(v) ==
           IF ~v.ok
           THEN /\ Finish(by, FALSE, FALSE, currentDoc, hist, Shown("Not saved.", v.msg))
                /\ UNCHANGED db
           ELSE Merge(buildAutoAbilities(sel))
     IN Judged(validateBeforeSave(sel))

\* What a successful class write adds to the history: whether the tracked
\* list was accurate before it, whether a manual entry bore a name it
\* generates, and whether it is the second of two consecutive class saves
\* of one selection set, the first of which started from an accurate list
\* without such an entry.
ClassWriteHistory(before, h, patch) ==
  [h EXCEPT
     !.w = [ step |-> S_class, confirmed |-> FALSE,
             second |-> /\ h.pre.any /\ h.pre.accurate /\ ~h.pre.collision
                        /\ Rerun(before, patch) ],
     !.pre = [ any |-> TRUE, accurate |-> Accurate(before),
               collision |-> Collision(before, patch[F_autoAbilityNames]) ]]

\* A save that takes a failed write for a written one.
ClassWriteResolveUnchecked(ok) ==
  /\ loc = S_class /\ run.pc = "writing"
  /\ db' = IF ok THEN updateDoc(db, run.patch) ELSE db
  /\ run' = [run EXCEPT !.pc = "marking"]
  /\ hist' = ClassWriteHistory(db, hist, run.patch)
  /\ UNCHANGED <<loc, currentDoc, sel, att, prof, ui>>

\* await saveCharacterPatch(...) settles.
ClassWriteResolve(ok) ==
  /\ loc = S_class /\ run.pc = "writing"
  /\ IF ok
     THEN /\ db' = updateDoc(db, run.patch)
          /\ run' = [run EXCEPT !.pc = "marking"]
          /\ hist' = ClassWriteHistory(db, hist, run.patch)
          /\ UNCHANGED <<loc, currentDoc, sel, att, prof, ui>>
     ELSE /\ Finish(run.by, FALSE, FALSE, currentDoc, hist, Shown("Error.", E_save))
          /\ UNCHANGED db

\* await markStepVisited(...) settles (its failure is swallowed), then the
\* rest of saveClassStep and, for Next, the rest of the Next handler.
ClassMarkResolve(ok) ==
  /\ loc = S_class /\ run.pc = "marking"
  /\ db' = IF ok THEN markStepVisited(db, S_class) ELSE db
  /\ LET docAfter == ClassCacheUpdate(currentDoc, sel, run.autoNames, run.mergedAbilities)
         stored == PatchStored(db', run.patch)
     IN IF run.by = "saveOpen"
        THEN Leave(P_editor, "saveOpen", TRUE, stored, hist)
        ELSE Finish(run.by, TRUE, stored, docAfter, hist, Shown("Saved.", ""))

(***************************************************************************)
(* Attributes step: main, updateUI, saveBuilder                            *)
(***************************************************************************)

clampInt(v, min, max) ==
  LET Clamped(p) == IF ~p.ok THEN min ELSE Max2(min, Min2(max, p.v))
  IN Clamped(ParseInt10(JsString(v)))

\* a is the page state: level, primaryAttr and the text of the six inputs.
getCurrentEffValues(a) ==
  [key \in AttrKeySet |->
     LET effCap == getAttributeEffectiveCap(Num(a.level), key, a.primaryAttr)
         min == IF key = a.primaryAttr THEN 1 ELSE 0
     IN clampInt(Str(a.inputs[key]), min, effCap)]

getBonusFor(a, key) == IF key = a.primaryAttr THEN 1 ELSE 0

effToBase(a, key, eff) == Max2(0, eff - getBonusFor(a, key))

RECURSIVE SumBase(_, _, _)
SumBase(a, effMap, i) ==
  IF i > Len(ATTR_KEYS) THEN 0
  ELSE effToBase(a, ATTR_KEYS[i], effMap[ATTR_KEYS[i]]) + SumBase(a, effMap, i + 1)

computeUsedBase(a, effMap) == SumBase(a, effMap, 1)

\* updateUI: nothing is clamped while no primary attribute is set; otherwise
\* every input is rewritten with its clamped value.
updateUI(a) ==
  IF a.primaryAttr = <<>> THEN a
  ELSE LET eff == getCurrentEffValues(a)
       IN [a EXCEPT !.inputs = [key \in AttrKeySet |-> JsString(Num(eff[key]))]]

\* warnings.join(" ")
RECURSIVE Join(_)
Join(warnings) ==
  IF warnings = <<>> THEN ""
  ELSE IF Len(warnings) = 1 THEN warnings[1]
  ELSE warnings[1] \o " " \o Join(Tail(warnings))

W_noPrimary == "Primary Attribute is not set. Go back to the Class step."
W_overspent == "You have spent too many attribute points."
W_unspent == "You have unspent attribute points."

\* Warnings that leave out the overspending one.
getAttributeWarningsNoOverspent(a) ==
  LET Warn(remaining) ==
        (IF a.primaryAttr = <<>> THEN <<W_noPrimary>> ELSE <<>>)
        \o (IF remaining > 0 THEN <<W_unspent>> ELSE <<>>)
  IN Warn(getAttributePointsToSpend(Num(a.level))
            - computeUsedBase(a, getCurrentEffValues(a)))

getAttributeWarnings(a) ==
  LET Warn(remaining) ==
        (IF a.primaryAttr = <<>> THEN <<W_noPrimary>> ELSE <<>>)
        \o (IF remaining < 0 THEN <<W_overspent>> ELSE <<>>)
        \o (IF remaining > 0 THEN <<W_unspent>> ELSE <<>>)
  IN Warn(getAttributePointsToSpend(Num(a.level))
            - computeUsedBase(a, getCurrentEffValues(a)))

\* main of the attributes step.
E_noPrimary == "Primary Attribute not set. Go back to the Class step."

LoadAttributesPage(markOk) ==
  /\ loc = S_attributes /\ run.pc = "loading"
  /\ db' = IF markOk THEN markStepVisited(db, S_attributes) ELSE db
  /\ LET Render(doc, a0) ==
           /\ currentDoc' = doc
           /\ att' = updateUI([a0 EXCEPT !.inputs =
                                 LET eff == getCurrentEffValues(a0)
                                 IN [k \in AttrKeySet |-> JsString(Num(eff[k]))]])
           /\ ui' = Shown("Ready.", IF a0.primaryAttr = <<>> THEN E_noPrimary ELSE "")
         Show(doc) ==
           Render(doc, [level |-> clampLevel(doc.level),
                        primaryAttr |-> doc.primaryAttribute,
                        inputs |-> [k \in AttrKeySet |-> JsString(doc.attributes[k])]])
     IN Show(loadCharacterDoc(db))
  /\ run' = IdleRun
  /\ hist' = [hist EXCEPT !.nav = NoNav, !.w = NoWrite, !.pre = NoPre]
  /\ UNCHANGED <<loc, sel, prof>>

\* The user types text into the input of attribute key (inputs are disabled
\* while no primary attribute is set); the input event runs updateUI.
AttrInput(key, text) ==
  /\ OnPage(S_attributes)
  /\ att.primaryAttr # <<>>
  /\ att' = updateUI([att EXCEPT !.inputs[key] = text])
  /\ att' # att
  /\ UNCHANGED <<db, loc, currentDoc, sel, prof, run, hist, ui>>

\* The write of saveBuilder, started once the warnings are out of the way.
AttrStartWrite(by, confirmed) ==
  LET Write(eff) ==
        run' = [pc |-> "writing", step |-> S_attributes, by |-> by, confirmed |-> confirmed,
                patch |-> sanitizeUpdatePatch(
                            buildAttributesUpdatePatch(att.level, eff, att.primaryAttr)),
                eff |-> eff]
  IN Write(getCurrentEffValues(att))

\* Save or Save and open sheet is pressed (requireComplete is false), or Next
\* (requireComplete is true): saveBuilder up to its first await.
AttrPress(by) ==
  /\ OnPage(S_attributes)
  /\ by = "next" => getPrevNext(loc).hasNext
  /\ LET Pressed(warnings, requireComplete) ==
           IF warnings # <<>> /\ requireComplete
           THEN /\ Finish(by, FALSE, FALSE, currentDoc, hist,
                          Shown("Not saved.", Join(warnings)))
           ELSE IF warnings # <<>>
           THEN /\ run' = [pc |-> "confirm", step |-> S_attributes, by |-> by]
                /\ ui' = SavingUi
                /\ UNCHANGED <<loc, currentDoc, sel, att, prof, hist>>
           ELSE /\ AttrStartWrite(by, FALSE)
                /\ ui' = SavingUi
                /\ UNCHANGED <<loc, currentDoc, sel, att, prof, hist>>
     IN Pressed(getAttributeWarnings(att), by = "next")
  /\ UNCHANGED db

\* The "Save anyway?" modal is answered.
AttrConfirmResolve(ok) ==
  /\ loc = S_attributes /\ run.pc = "confirm"
  /\ IF ok
     THEN /\ AttrStartWrite(run.by, TRUE)
          /\ UNCHANGED <<loc, currentDoc, sel, att, prof, hist, ui>>
     ELSE Finish(run.by, FALSE, FALSE, currentDoc, hist, Shown("Not saved.", ui.error))
  /\ UNCHANGED db

\* await saveCharacterPatch(...) settles, then the rest of saveBuilder.
AttrWriteResolve(ok) ==
  /\ loc = S_attributes /\ run.pc = "writing"
  /\ IF ok
     THEN LET docAfter == [currentDoc EXCEPT !.attributes =
                                               [k \in AttrKeySet |-> Num(run.eff[k])]]
              h == [hist EXCEPT !.w = [NoWrite EXCEPT !.step = S_attributes,
                                                      !.confirmed = run.confirmed]]
          IN /\ db' = updateDoc(db, run.patch)
             /\ IF run.by = "saveOpen"
                THEN Leave(P_editor, "saveOpen", TRUE, PatchStored(db', run.patch), h)
                ELSE Finish(run.by, TRUE, PatchStored(db', run.patch), docAfter, h,
                            Shown("Saved.", ui.error))
     ELSE /\ Finish(run.by, FALSE, FALSE, currentDoc, hist, Shown("Error.", E_save))
          /\ UNCHANGED db

(***************************************************************************)
(* Profile step: main, saveBuilder                                         *)
(***************************************************************************)

\* A profile step without requirements.
getProfileWarningsNone(p) == <<>>

getProfileWarnings(p) ==
  IF Trim(p.charName) = <<>> THEN <<"Character name is empty.">> ELSE <<>>

\* main of the profile step. The page reads the name and the portrait path
\* from the top level of the loaded document, where loadCharacterDoc leaves
\* none, so the name input and portraitPath start empty.
LoadProfilePage(markOk) ==
  /\ loc = S_basics /\ run.pc = "loading"
  /\ db' = IF markOk THEN markStepVisited(db, S_basics) ELSE db
  /\ currentDoc' = loadCharacterDoc(db)
  /\ prof' = NoProf
  /\ ui' = Shown("Ready.", "")
  /\ run' = IdleRun
  /\ hist' = [hist EXCEPT !.nav = NoNav, !.w = NoWrite, !.pre = NoPre]
  /\ UNCHANGED <<loc, sel, att>>

\* The user types a name.
NameInput(text) ==
  /\ OnPage(S_basics)
  /\ text # prof.charName
  /\ prof' = [prof EXCEPT !.charName = text]
  /\ UNCHANGED <<db, loc, currentDoc, sel, att, run, hist, ui>>

\* Save, Save and open sheet (requireComplete false) or Next (requireComplete
\* true) is pressed: saveBuilder up to its first await, which is
\* uploadPortrait when a portrait file is pending and ensureSheetMap
\* otherwise.
ProfilePress(by) ==
  /\ OnPage(S_basics)
  /\ by = "next" => getPrevNext(loc).hasNext
  /\ LET warnings == getProfileWarnings(prof)
         requireComplete == by = "next"
     IN IF warnings # <<>> /\ ~requireComplete
        THEN /\ run' = [pc |-> "confirm", step |-> S_basics, by |-> by]
             /\ ui' = SavingUi
             /\ UNCHANGED <<loc, currentDoc, sel, att, prof, hist>>
        ELSE IF warnings # <<>>
        THEN Finish(by, FALSE, FALSE, currentDoc, hist, Shown("Not saved.", Join(warnings)))
        ELSE /\ run' = [pc |-> IF prof.pendingPortraitFile THEN "uploading" ELSE "ensuring",
                         step |-> S_basics, by |-> by, confirmed |-> FALSE]
             /\ ui' = SavingUi
             /\ UNCHANGED <<loc, currentDoc, sel, att, prof, hist>>
  /\ UNCHANGED db

\* The "Save anyway?" modal is answered.
ProfileConfirmResolve(ok) ==
  /\ loc = S_basics /\ run.pc = "confirm"
  /\ IF ok
     THEN /\ run' = [pc |-> IF prof.pendingPortraitFile THEN "uploading" ELSE "ensuring",
                      step |-> S_basics, by |-> run.by, confirmed |-> TRUE]
          /\ UNCHANGED <<loc, currentDoc, sel, att, prof, hist, ui>>
     ELSE Finish(run.by, FALSE, FALSE, currentDoc, hist, Shown("Not saved.", ui.error))
  /\ UNCHANGED db

\* await ensureSheetMap() settles: the merge of { sheet: { fields: {} } }
\* touches no builder field. Then the patch is built and handed to
\* saveCharacterPatch.
ProfileEnsureResolve(ok) ==
  /\ loc = S_basics /\ run.pc = "ensuring"
  /\ IF ok
     THEN /\ run' = [pc |-> "writing", step |-> S_basics, by |-> run.by,
                     confirmed |-> run.confirmed,
                     patch |-> sanitizeUpdatePatch(
                                 buildProfileUpdatePatch(Trim(prof.charName), prof.portraitPath))]
          /\ UNCHANGED <<loc, currentDoc, sel, att, prof, hist, ui>>
     ELSE Finish(run.by, FALSE, FALSE, currentDoc, hist, Shown("Error.", E_save))
  /\ UNCHANGED db

\* await saveCharacterPatch(...) settles, then the rest of saveBuilder. The
\* local cache update writes top-level fields and builder.level of the copy.
ProfileWriteResolve(ok) ==
  /\ loc = S_basics /\ run.pc = "writing"
  /\ IF ok
     THEN LET h == [hist EXCEPT !.w = [NoWrite EXCEPT !.step = S_basics,
                                                      !.confirmed = run.confirmed]]
          IN /\ db' = updateDoc(db, run.patch)
             /\ IF run.by = "saveOpen"
                THEN Leave(P_editor, "saveOpen", TRUE, PatchStored(db', run.patch), h)
                ELSE Finish(run.by, TRUE, PatchStored(db', run.patch), currentDoc, h,
                            Shown("Saved.", ui.error))
     ELSE /\ Finish(run.by, FALSE, FALSE, currentDoc, hist, Shown("Error.", E_save))
          /\ UNCHANGED db

(***************************************************************************)
(* Specification of the rule-math helpers: each action is one call with    *)
(* arguments drawn from bounded sets.                                      *)
(***************************************************************************)

\* How far below 1 and above 12 the probed numeric levels reach.
MaxLevelProbe == 2

\* Texts handed in as a level, each with what it denotes: a number or nothing.
LevelTextCases ==
  { [s |-> <<>>, numeric |-> FALSE, value |-> 0],
    [s |-> <<"a", "b">>, numeric |-> FALSE, value |-> 0],
    [s |-> <<"7">>, numeric |-> TRUE, value |-> 7],
    [s |-> <<" ", "1", "2">>, numeric |-> TRUE, value |-> 12],
    [s |-> <<"-", "3">>, numeric |-> TRUE, value |-> -3],
    [s |-> <<"4", "0">>, numeric |-> TRUE, value |-> 40],
    [s |-> <<"+", "5">>, numeric |-> TRUE, value |-> 5],
    [s |-> <<"0", "0", "9">>, numeric |-> TRUE, value |-> 9] }

LevelInputs ==
  {Num(n) : n \in (LevelMin - MaxLevelProbe)..(LevelMax + MaxLevelProbe)}
  \cup {Str(c.s) : c \in LevelTextCases}
  \cup {Undefined}

\* What a level input denotes, read off the input itself (not parsed).
Denotes(v) ==
  CASE v.t = "num" -> [numeric |-> TRUE, value |-> v.n]
    [] v.t = "str" -> LET c == CHOOSE x \in LevelTextCases : x.s = v.s
                      IN [numeric |-> c.numeric, value |-> c.value]
    [] OTHER -> [numeric |-> FALSE, value |-> 0]

\* The level an input stands for once clamped into 1..12 (1 when it denotes no number).
ClampedLevel(v) ==
  LET d == Denotes(v)
  IN IF ~d.numeric THEN 1
     ELSE IF d.value < 1 THEN 1
     ELSE IF d.value > 12 THEN 12
     ELSE d.value

PrimaryInputs ==
  AttrKeySet \cup
  { <<>>,
    <<"S", "t", "r", "e", "n", "g", "t", "h">>,
    <<" ", "a", "g", "i", "l", "i", "t", "y", " ">>,
    <<"l", "u", "c", "k">> }

StrengthInputs == {Num(-1), Num(0), Num(5), Num(99), Num(120), Str(<<"7">>), Undefined}

ClassKeyInputs ==
  {K_war, K_mag, K_rog, K_new, K_none, <<>>, <<" ", "w", "a", "r", " ">>}

ZeroAttrs == [k \in AttrKeySet |-> Num(0)]

BudgetRequests == {[fn |-> "budget", done |-> FALSE, level |-> v] : v \in LevelInputs}

EffectiveCapRequests ==
  {[fn |-> "effectiveCap", done |-> FALSE, level |-> L, attrKey |-> k, primary |-> p] :
     L \in LevelMin..LevelMax, k \in AttrKeySet, p \in PrimaryInputs}

MaxHPRequests ==
  {[fn |-> "maxHP", done |-> FALSE, level |-> v, classKey |-> c, strength |-> st,
    loadOk |-> ok] :
     v \in LevelInputs, c \in ClassKeyInputs, st \in StrengthInputs, ok \in BOOLEAN}

CallBudget ==
  /\ call.fn = "budget" /\ ~call.done
  /\ call' = [fn |-> "budget", done |-> TRUE, level |-> call.level,
              points |-> getAttributePointsToSpend(call.level),
              cap |-> getAttributeFinalCap(call.level)]

CallEffectiveCap ==
  /\ call.fn = "effectiveCap" /\ ~call.done
  /\ call' = [fn |-> "effectiveCap", done |-> TRUE, level |-> call.level,
              attrKey |-> call.attrKey, primary |-> call.primary,
              cap |-> getAttributeEffectiveCap(Num(call.level), call.attrKey, call.primary),
              finalCap |-> getAttributeFinalCap(Num(call.level))]

CallMaxHP ==
  /\ call.fn = "maxHP" /\ ~call.done
  /\ call' = [fn |-> "maxHP", done |-> TRUE, level |-> call.level,
              classKey |-> call.classKey, strength |-> call.strength,
              loadOk |-> call.loadOk,
              hp |-> computeMaxHP(call.level, call.classKey,
                                  [ZeroAttrs EXCEPT ![A_strength] = call.strength],
                                  call.loadOk)]

InitRules ==
  /\ call \in BudgetRequests \cup EffectiveCapRequests \cup MaxHPRequests
  /\ normRun = NoNorm /\ ed = NoEd /\ saving = <<>>
  /\ NoWizard

NextRules ==
  \/ CallBudget /\ UNCHANGED normVars
  \/ CallEffectiveCap /\ UNCHANGED normVars
  \/ CallMaxHP /\ UNCHANGED normVars

SpecRules == InitRules /\ [][NextRules]_vars

(***************************************************************************)
(* Specification of normalizeCharacterDoc: a raw document is normalised,   *)
(* and the result is normalised again (as when a page loads a document     *)
(* that an earlier load produced).                                         *)
(***************************************************************************)

N_bo == <<"B", "o">>
N_sneak == <<"S", "n", "e", "a", "k">>
N_untidy == <<" ", "B", "o", " ", " ", "\t", "L", "e", "e", " ">>

\* Names around the 64-character limit of sanitizeCharName.
NameInputs ==
  { <<>>, N_bo, N_untidy, <<"\f", "B", "o">>,
    Rep("a", NameMaxLen), Rep("a", NameMaxLen + 1),
    Rep("a", NameMaxLen - 1) \o <<" ", "b">>,
    Rep("a", NameMaxLen - 2) \o <<" ", " ", "b", "c">> }

LevelFieldInputs == {Undefined, Num(0), Num(2), Num(13), Str(<<"7">>)}

PrimaryFieldInputs ==
  {<<>>, A_strength, <<"S", "t", "r", "e", "n", "g", "t", "h">>, <<"l", "u", "c", "k">>}

AttributeFieldInputs ==
  { [k \in AttrKeySet |-> Undefined],
    [k \in AttrKeySet |-> Num(9)],
    [k \in AttrKeySet |-> IF k = A_strength THEN Num(0) ELSE Str(<<"3">>)],
    [k \in AttrKeySet |-> IF k = A_heart THEN Num(120) ELSE Num(-1)] }

AbilityFieldInputs ==
  { <<>>,
    << [name |-> <<" ", "S", "n", "e", "a", "k", " ", " ", "u", "p">>,
        text |-> <<" ", "q", "u", "i", "e", "t", " ", " ", "!", "\n">>] >>,
    << [name |-> <<" ">>, text |-> <<>>], [name |-> <<>>, text |-> N_sneak] >>,
    << [name |-> Rep("n", AbilityNameMaxLen - 1) \o <<" ", "x">>, text |-> N_sneak] >> }

StringArrayInputs ==
  { <<>>, <<N_sneak>>, << <<" ", "C", "l">>, <<>>, <<"P", "a", " ", " ", "x">> >>,
    [i \in 1..(VisitedMaxItems + 1) |-> <<"s">>],
    << Rep("k", VisitedMaxLen - 1) \o <<" ", "z">> >> }

PathInputs ==
  { <<>>, <<"p", "/", "a", ".", "p", "n", "g">>, <<"p", " ", "a">>,
    <<" ", "p", "_", "1", "-", "b", " ">> }

BaseRaw ==
  [ schemaVersion |-> Undefined, ownerUid |-> <<"u", "1">>, name |-> N_bo,
    portraitPath |-> <<>>, level |-> Num(1), classKey |-> <<>>,
    primaryAttribute |-> <<>>, attributes |-> [k \in AttrKeySet |-> Undefined],
    selectedClassFeatureOptions |-> <<>>, selectedFeats |-> <<>>,
    autoAbilityNames |-> <<>>, visitedSteps |-> <<>>,
    hasAbilities |-> FALSE, abilities |-> <<>> ]

\* Raw documents: every combination of level, primary attribute and attribute
\* values, and every text field varied over its inputs.
RawDocs ==
  {[BaseRaw EXCEPT !.level = L, !.primaryAttribute = p, !.attributes = a] :
     L \in LevelFieldInputs, p \in PrimaryFieldInputs, a \in AttributeFieldInputs}
  \cup {[BaseRaw EXCEPT !.name = n, !.classKey = c] :
          n \in NameInputs, c \in {<<>>, K_war, <<" ", "w", "a", "r", " ">>}}
  \cup {[BaseRaw EXCEPT !.ownerUid = n] : n \in NameInputs}
  \cup {[BaseRaw EXCEPT !.portraitPath = q] : q \in PathInputs}
  \cup {[BaseRaw EXCEPT !.hasAbilities = TRUE, !.abilities = ab] : ab \in AbilityFieldInputs}
  \cup {[BaseRaw EXCEPT !.selectedFeats = x, !.visitedSteps = y] :
          x \in StringArrayInputs, y \in StringArrayInputs}
  \cup {[BaseRaw EXCEPT !.selectedClassFeatureOptions = x, !.autoAbilityNames = x,
                        !.schemaVersion = Num(12345)] : x \in StringArrayInputs}

\* loadCharacterDoc on a stored document.
NormalizeRaw ==
  /\ normRun.phase = "raw"
  /\ normRun' = [phase |-> "once", raw |-> normRun.raw,
                 once |-> normalizeCharacterDoc(normRun.raw)]

\* The normalised document is normalised again.
NormalizeAgain ==
  /\ normRun.phase = "once"
  /\ normRun' = [phase |-> "twice", raw |-> normRun.raw, once |-> normRun.once,
                 twice |-> normalizeCharacterDoc(normRun.once)]

InitNormalize ==
  /\ call = NoCall /\ ed = NoEd /\ saving = <<>>
  /\ NoWizard
  /\ normRun \in {[phase |-> "raw", raw |-> d] : d \in RawDocs}

NextNormalize ==
  \/ NormalizeRaw /\ UNCHANGED ruleVars
  \/ NormalizeAgain /\ UNCHANGED ruleVars

SpecNormalize == InitNormalize /\ [][NextNormalize]_vars

(***************************************************************************)
(* Specifications of the class step: the page is opened on a stored        *)
(* document (a new character, or a document that earlier class saves and   *)
(* the sheet editor left behind). One handler runs at a time and the user  *)
(* edits only between handlers.                                            *)
(***************************************************************************)

\* The highest level offered by the level select while the selection is
\* edited, and while it is edited and saved.
MaxLevelInput == 4
MaxLevelSaved == 2

Buttons == {"save", "saveOpen", "next"}

ClassOptions ==
  {<<>>} \cup {safeStr(GameData.classes[i].classKey, ClassKeyMaxLen) :
                 i \in 1..Len(GameData.classes)}

LevelOptions(max) == {Str(NatToText(n)) : n \in 1..max}

\* Bounds of the checkbox coordinates: features per class, options per group,
\* feats per class.
FeatureIndexes == 1..Len(GameData.classFeatures[K_war])
OptionIndexes == 1..Len(GameData.classFeatures[K_war][2].options)
FeatIndexes == 1..Len(GameData.feats)

AutoTough == [name |-> P_classFeature \o G_tough, text |-> <<"d">>]
AutoCleave == [name |-> P_feat \o G_cleave, text |-> <<"c">>]
\* Entries typed into the sheet editor, stored as typed.
ManualSneak ==
  [ name |-> <<" ", "S", "n", "e", "a", "k", " ", " ", "u", "p">>,
    text |-> <<" ", "q", "u", "i", "e", "t", " ", " ", "!", "\n">> ]
ManualCleave == [name |-> P_feat \o G_cleave, text |-> <<"m", "i", "n", "e">>]

AllVisited == <<S_basics, S_class, S_attributes>>

WarDoc ==
  [ NewCharacterDoc EXCEPT
      !.schemaVersion = Num(CHARACTER_SCHEMA_VERSION), !.name = N_bo, !.level = Num(2),
      !.classKey = K_war, !.primaryAttribute = A_strength,
      !.attributes = [k \in AttrKeySet |-> Num(0)],
      !.visitedSteps = AllVisited, !.hasAbilities = TRUE ]

\* a new character that has been through the profile step
FreshDoc == [NewCharacterDoc EXCEPT !.visitedSteps = <<S_basics>>]

\* saved by the class step, then a manual entry added in the editor
EditedDoc ==
  [ WarDoc EXCEPT !.selectedFeats = <<G_cleave>>,
                  !.autoAbilityNames = <<AutoTough.name, AutoCleave.name>>,
                  !.abilities = <<ManualSneak, AutoTough, AutoCleave>> ]

\* a manual entry bears the name of an ability the class step generates
NamesakeDoc ==
  [ WarDoc EXCEPT !.autoAbilityNames = <<AutoTough.name>>,
                  !.abilities = <<AutoTough, ManualCleave>> ]

\* the level was lowered outside the class step and the tracked list lost
StaleDoc ==
  [ WarDoc EXCEPT !.level = Num(1),
                  !.selectedFeats = <<G_cleave, G_parry, <<"O", "l", "d">> >>,
                  !.selectedClassFeatureOptions =
                     << buildOptionKey(GameData.classFeatures[K_war][2],
                                       GameData.classFeatures[K_war][2].options[1]),
                        <<"x", ":", ":", "y">> >>,
                  !.abilities = <<AutoTough>> ]

\* Stored documents the class step is opened on.
ClassScenarios == {FreshDoc, EditedDoc, NamesakeDoc, StaleDoc}

InitClass ==
  /\ call = NoCall /\ normRun = NoNorm /\ ed = NoEd /\ saving = <<>>
  /\ db \in ClassScenarios
  /\ hist = NoHist /\ ui = LoadingUi
  /\ loc = S_class /\ run = LoadingRun
  /\ currentDoc = NoDoc /\ sel = NoSelection /\ att = NoAtt /\ prof = NoProf

\* The selection is edited and the page reloaded; nothing is saved.
NextClassPage ==
  \/ LoadClassPage /\ UNCHANGED pureVars
  \/ \E key \in ClassOptions : ClassChange(key) /\ UNCHANGED pureVars
  \/ \E v \in LevelOptions(MaxLevelInput) : LevelChange(v) /\ UNCHANGED pureVars
  \/ \E p \in AttrKeySet : PrimaryChange(p) /\ UNCHANGED pureVars
  \/ \E i \in FeatureIndexes, j \in OptionIndexes : ToggleOption(i, j) /\ UNCHANGED pureVars
  \/ \E i \in FeatIndexes : ToggleFeat(i) /\ UNCHANGED pureVars
  \/ Reload /\ UNCHANGED pureVars

SpecClassPage == InitClass /\ [][NextClassPage]_vars

\* The selection is edited and saved, until the page is left; the primary
\* attribute stays what the document or the class change made it.
NextClassSave ==
  \/ LoadClassPage /\ UNCHANGED pureVars
  \/ \E key \in ClassOptions : ClassChange(key) /\ UNCHANGED pureVars
  \/ \E v \in LevelOptions(MaxLevelSaved) : LevelChange(v) /\ UNCHANGED pureVars
  \/ \E i \in FeatureIndexes, j \in OptionIndexes : ToggleOption(i, j) /\ UNCHANGED pureVars
  \/ \E i \in FeatIndexes : ToggleFeat(i) /\ UNCHANGED pureVars
  \/ \E by \in Buttons : ClassPress(by) /\ UNCHANGED pureVars
  \/ \E ok \in BOOLEAN : ClassWriteResolve(ok) /\ UNCHANGED pureVars
  \/ \E ok \in BOOLEAN : ClassMarkResolve(ok) /\ UNCHANGED pureVars
  \/ Reload /\ UNCHANGED pureVars

SpecClassSave == InitClass /\ [][NextClassSave]_vars

(***************************************************************************)
(* C1: selections stay consistent with the selected class and level        *)
(***************************************************************************)

\* The names of the feats of class c open at level L, read off the feat list.
FeatNamesOpen(c, L) ==
  {Trim(f.name) : f \in {g \in Range(GameData.feats) : g.classKey = c /\ g.minLevel <= L}}

\* The keys of the options of the option groups of class c open at level L.
OptionKeysOpen(c, L) ==
  UNION { {buildOptionKey(g, g.options[j]) : j \in 1..Len(g.options)} :
            g \in {f \in Range(ClassFeaturesOf(c)) : f.type = "optionGroup" /\ f.level <= L} }

\* C1: once the class step has loaded with a class selected, after any class
\* changes, level changes, feat toggles and option toggles, every selected
\* feat name is a feat of the selected class with minLevel <= the selected
\* level, every selected option key is an option of an option group of the
\* selected class with level <= the selected level, and at most
\* floor(level/2) feats are selected.
C1_SelectionConsistent ==
  (loc = S_class /\ run.pc = "idle" /\ hist.loadedWithClass) =>
     /\ Range(sel.selectedFeatNames) \subseteq
          FeatNamesOpen(sel.selectedClassKey, sel.selectedLevel)
     /\ Range(sel.selectedFeatureOptionKeys) \subseteq
          OptionKeysOpen(sel.selectedClassKey, sel.selectedLevel)
     /\ Len(sel.selectedFeatNames) <= sel.selectedLevel \div 2

\* The page loaded on a document whose stored feats did not fit its level,
\* the level was changed since, and a feat and an option are selected.
C1_Witness ==
  /\ loc = S_class /\ run.pc = "idle" /\ hist.loadedWithClass
  /\ Len(currentDoc.selectedFeats) > currentDoc.level.n \div 2
  /\ sel.selectedLevel # currentDoc.level.n
  /\ sel.selectedFeatNames # <<>>
  /\ sel.selectedFeatureOptionKeys # <<>>

(***************************************************************************)
(* C4, C5: the merge of the auto-generated abilities                       *)
(***************************************************************************)

\* saveCharacterPatch of the class step resolves: db is the stored document
\* before the write and db' after it.
ClassWritten == loc = S_class /\ run.pc = "writing" /\ run'.pc = "marking"

\* The entries of M, in order, are what the list holds of them.
KeptOnce(M, abilities) == SelectSeq(abilities, LAMBDA e : e \in Range(M)) = M

\* The names the class step can generate.
AllAutoNames == {e.name : e \in AllAutoAbilities}

\* C4 as stated: a class save that re-runs the stored selection set writes a
\* list in which every stored entry whose name never appeared in
\* autoAbilityNames (neither tracked now nor a name the class step
\* generates) is present exactly once, in the same relative order.
C4_AsStated ==
  [][ (ClassWritten /\ Rerun(db, run.patch)) =>
        KeptOnce(SelectSeq(db.abilities,
                           LAMBDA e : e.name \notin Range(db.autoAbilityNames) \cup AllAutoNames),
                 db'.abilities) ]_vars

\* C4 amended: when the stored abilities list is in the form
\* sanitizeRepeatableAbilities leaves it in, a class save that re-runs the
\* stored selection set writes a list in which every stored entry whose
\* name is not in autoAbilityNames is present exactly once, in the same
\* relative order.
C4_ManualKept ==
  [][ (ClassWritten /\ Rerun(db, run.patch) /\ Tidy(db.abilities)) =>
        KeptOnce(ManualEntries(db.abilities, db.autoAbilityNames), db'.abilities) ]_vars

\* A re-run of the stored selection set has been written over a tidy list
\* with a manual entry, which the stored list still holds.
C4_Witness ==
  /\ loc = S_class /\ run.pc = "marking"
  /\ Rerun(currentDoc, run.patch)
  /\ Tidy(currentDoc.abilities)
  /\ ManualEntries(currentDoc.abilities, currentDoc.autoAbilityNames) # <<>>
  /\ KeptOnce(ManualEntries(currentDoc.abilities, currentDoc.autoAbilityNames), db.abilities)
  /\ Len(db.autoAbilityNames) >= 2

\* No tracked name is borne by two entries.
NoAutoTwice(doc) ==
  \A n \in Range(doc.autoAbilityNames) :
     Cardinality({i \in 1..Len(doc.abilities) : doc.abilities[i].name = n}) <= 1

\* The write leaves the abilities list and the tracked list as they were.
SameLists == db'.abilities = db.abilities /\ db'.autoAbilityNames = db.autoAbilityNames

\* C5 as stated: if autoAbilityNames holds exactly the names of the
\* auto-generated entries of the list, the second of two consecutive class
\* saves of one selection set leaves the abilities list and
\* autoAbilityNames as the first left them, no auto-generated entry twice.
C5_AsStated ==
  [][ (ClassWritten /\ hist.pre.any /\ hist.pre.accurate /\ Rerun(db, run.patch)) =>
        (SameLists /\ NoAutoTwice(db')) ]_vars

\* C5 amended: if autoAbilityNames holds exactly the names of the
\* auto-generated entries of the list and no other entry bears the name of
\* an ability the save generates, the second of two consecutive class saves
\* of one selection set leaves the abilities list and autoAbilityNames as
\* the first left them, no auto-generated entry twice.
C5_Idempotent ==
  [][ (ClassWritten /\ hist.pre.any /\ hist.pre.accurate /\ ~hist.pre.collision
         /\ Rerun(db, run.patch)) =>
        (SameLists /\ NoAutoTwice(db')) ]_vars

\* The second of two such saves has been written, with a manual entry and
\* two auto-generated ones in the list.
C5_Witness ==
  /\ loc = S_class /\ run.pc = "marking"
  /\ hist.w.second
  /\ Len(db.autoAbilityNames) >= 2
  /\ Len(db.abilities) > Len(db.autoAbilityNames)

(***************************************************************************)
(* Specification of the wizard: a new character is taken through the       *)
(* profile, class and attributes steps, in any order the navigation        *)
(* allows, saving any number of times, until the sheet editor is opened.   *)
(***************************************************************************)

\* The highest level offered by the level select of the class step.
WizardMaxLevel == 2

\* How many of the six attribute inputs the user types into, from the first.
NumEditedAttrs == 1

\* What the user types into an attribute input: nothing spent, or more than
\* any cap allows.
AttrTexts == {<<"0">>, <<"9">>}

\* In the wizard the writes of the visit marks go through.
MarkOutcomes == {TRUE}

InitWizard ==
  /\ call = NoCall /\ normRun = NoNorm /\ ed = NoEd /\ saving = <<>>
  /\ db = NewCharacterDoc
  /\ hist = NoHist /\ ui = LoadingUi
  /\ loc = S_basics /\ run = LoadingRun
  /\ currentDoc = NoDoc /\ sel = NoSelection /\ att = NoAtt /\ prof = NoProf

NextWizard ==
  \/ \E ok \in MarkOutcomes : LoadProfilePage(ok) /\ UNCHANGED pureVars
  \/ NameInput(N_bo) /\ UNCHANGED pureVars
  \/ \E by \in Buttons : ProfilePress(by) /\ UNCHANGED pureVars
  \/ \E ok \in BOOLEAN : ProfileConfirmResolve(ok) /\ UNCHANGED pureVars
  \/ \E ok \in BOOLEAN : ProfileEnsureResolve(ok) /\ UNCHANGED pureVars
  \/ \E ok \in BOOLEAN : ProfileWriteResolve(ok) /\ UNCHANGED pureVars
  \/ LoadClassPage /\ UNCHANGED pureVars
  \/ \E key \in ClassOptions : ClassChange(key) /\ UNCHANGED pureVars
  \/ \E v \in LevelOptions(WizardMaxLevel) : LevelChange(v) /\ UNCHANGED pureVars
  \/ \E p \in AttrKeySet : PrimaryChange(p) /\ UNCHANGED pureVars
  \/ \E by \in Buttons : ClassPress(by) /\ UNCHANGED pureVars
  \/ \E ok \in BOOLEAN : ClassWriteResolve(ok) /\ UNCHANGED pureVars
  \/ \E ok \in MarkOutcomes : ClassMarkResolve(ok) /\ UNCHANGED pureVars
  \/ \E ok \in MarkOutcomes : LoadAttributesPage(ok) /\ UNCHANGED pureVars
  \/ \E i \in 1..NumEditedAttrs, text \in AttrTexts :
        AttrInput(ATTR_KEYS[i], text) /\ UNCHANGED pureVars
  \/ \E by \in Buttons : AttrPress(by) /\ UNCHANGED pureVars
  \/ \E ok \in BOOLEAN : AttrConfirmResolve(ok) /\ UNCHANGED pureVars
  \/ \E ok \in BOOLEAN : AttrWriteResolve(ok) /\ UNCHANGED pureVars
  \/ NavPrev /\ UNCHANGED pureVars
  \/ \E step \in Range(BUILDER_STEPS) : NavStepLink(step) /\ UNCHANGED pureVars
  \/ Reload /\ UNCHANGED pureVars

SpecWizard == InitWizard /\ [][NextWizard]_vars

(***************************************************************************)
(* Specification of the attributes step: the page is opened on a stored    *)
(* document, the user types into the inputs and saves.                     *)
(***************************************************************************)

\* How many of the six attribute inputs the user types into, from the first.
NumTypedAttrs == 4

\* Stored documents the attributes step is opened on: a level-2 and a
\* level-1 character with a primary attribute, and one without a class.
AttrScenarios ==
  { WarDoc, [WarDoc EXCEPT !.level = Num(1)],
    [FreshDoc EXCEPT !.visitedSteps = AllVisited] }

InitAttributes ==
  /\ call = NoCall /\ normRun = NoNorm /\ ed = NoEd /\ saving = <<>>
  /\ db \in AttrScenarios
  /\ hist = NoHist /\ ui = LoadingUi
  /\ loc = S_attributes /\ run = LoadingRun
  /\ currentDoc = NoDoc /\ sel = NoSelection /\ att = NoAtt /\ prof = NoProf

NextAttributes ==
  \/ \E ok \in BOOLEAN : LoadAttributesPage(ok) /\ UNCHANGED pureVars
  \/ \E i \in 1..NumTypedAttrs, text \in AttrTexts :
        AttrInput(ATTR_KEYS[i], text) /\ UNCHANGED pureVars
  \/ \E by \in Buttons : AttrPress(by) /\ UNCHANGED pureVars
  \/ \E ok \in BOOLEAN : AttrConfirmResolve(ok) /\ UNCHANGED pureVars
  \/ \E ok \in BOOLEAN : AttrWriteResolve(ok) /\ UNCHANGED pureVars
  \/ Reload /\ UNCHANGED pureVars

SpecAttributes == InitAttributes /\ [][NextAttributes]_vars

(***************************************************************************)
(* C2, C3: the stored attributes against the cap and the budget            *)
(***************************************************************************)

\* The number a stored field holds, 0 when the document has none.
StoredNum(v) == IF v.t = "num" THEN v.n ELSE 0

\* C2: after any sequence of wizard saves every stored attribute value is at
\* most getAttributeEffectiveCap(stored level, attribute, stored primary).
C2_StoredWithinCap ==
  \A k \in AttrKeySet :
     StoredNum(db.attributes[k]) <= getAttributeEffectiveCap(db.level, k, db.primaryAttribute)

\* The base points of the stored attributes: the value, less 1 for the
\* primary attribute, floored at 0.
StoredBase(doc, k) ==
  Max2(0, StoredNum(doc.attributes[k]) - (IF k = doc.primaryAttribute THEN 1 ELSE 0))

StoredBaseSum(doc) ==
  StoredBase(doc, A_strength) + StoredBase(doc, A_agility) + StoredBase(doc, A_intellect)
    + StoredBase(doc, A_willpower) + StoredBase(doc, A_attunement) + StoredBase(doc, A_heart)

\* 12 + 3*(stored level - 1), a document without a level counting as level 1.
StoredBudget(doc) == 12 + 3 * ((IF doc.level.t = "num" THEN doc.level.n ELSE 1) - 1)

\* C3 as stated: after any sequence of wizard saves the base points of the
\* stored attributes sum to at most 12 + 3*(stored level - 1).
C3_AsStated == StoredBaseSum(db) <= StoredBudget(db)

\* C3 amended: after an attributes-step save that went through without the
\* "Save anyway" confirmation, the base points of the stored attributes sum
\* to at most 12 + 3*(stored level - 1).
C3_UnconfirmedWithinBudget ==
  (hist.w.step = S_attributes /\ ~hist.w.confirmed) => StoredBaseSum(db) <= StoredBudget(db)

\* Such a save has stored an allocation that uses the whole budget.
C3_Witness ==
  /\ loc = S_attributes
  /\ hist.w.step = S_attributes /\ ~hist.w.confirmed
  /\ StoredBaseSum(db) = StoredBudget(db)
  /\ StoredNum(db.attributes[A_agility]) > 0

(***************************************************************************)
(* C10: Next navigates only after the auto-save succeeded                  *)
(***************************************************************************)

\* C10: the page changes to the next step through Next only after the
\* onBeforeNext callback resolved to true, and from the class step only
\* with the class patch stored; after a callback that resolved to false
\* (validation failure or write failure) the page has not changed.
C10_NextAfterSave ==
  hist.nav.via = "next" =>
     /\ hist.nav.ok
     /\ hist.nav.from = S_class => hist.nav.stored

\* Next has taken the wizard from the class step to the attributes step.
C10_Witness ==
  /\ loc = S_attributes /\ run.pc = "loading"
  /\ hist.nav.via = "next" /\ hist.nav.from = S_class
  /\ db.classKey # <<>>

(***************************************************************************)
(* C7: effective cap                                                       *)
(***************************************************************************)

\* C7 as stated: at level 1 or 2 every attribute other than the primary is
\* capped at finalCap - 1, whatever the primary-attribute value is (an empty
\* one included); the primary attribute, and every attribute above level 2,
\* is capped at finalCap.
C7_AsStated ==
  (call.fn = "effectiveCap" /\ call.done) =>
    LET isPrimary == call.attrKey = coerceAttrKey(call.primary)
    IN /\ (call.level <= 2 /\ ~isPrimary) => call.cap = (4 + (call.level \div 2)) - 1
       /\ (isPrimary \/ call.level > 2) => call.cap = 4 + (call.level \div 2)

\* C7 amended: the penalty applies at level 1 or 2 only when the primary value
\* names one of the six attributes and the attribute is another one; when the
\* attribute is the primary, the level is above 2, or the primary value is
\* empty or names no attribute, the cap is finalCap = 4 + floor(L/2).
C7_EffectiveCap ==
  (call.fn = "effectiveCap" /\ call.done) =>
    LET p == coerceAttrKey(call.primary)
        penalised == call.level <= 2 /\ p \in AttrKeySet /\ call.attrKey # p
    IN /\ penalised => call.cap = (4 + (call.level \div 2)) - 1
       /\ ~penalised => call.cap = 4 + (call.level \div 2)
       /\ call.finalCap = 4 + (call.level \div 2)

C7_Witness ==
  /\ call.fn = "effectiveCap" /\ call.done
  /\ call.level = 2 /\ call.primary = <<>> /\ call.attrKey = A_strength
  /\ call.cap = 5

(***************************************************************************)
(* C8: point budget and final cap                                          *)
(***************************************************************************)

TierOfClass(classKey, loadOk) ==
  LET k == Trim(classKey)
  IN IF ~loadOk THEN "low"
     ELSE IF k = K_war THEN "high"
     ELSE IF k = K_mag THEN "medium"
     ELSE "low"

StrengthValue(st) ==
  CASE st.t = "num" -> IF st.n < 0 THEN 0 ELSE IF st.n > 99 THEN 99 ELSE st.n
    [] st.t = "str" -> 7
    [] OTHER -> 0

\* C9: computeMaxHP = base + per*(L-1) + strength*(L+2) with L the level
\* clamped to 1..12, strength clamped to 0..99 and (base, per) = (40,8) low,
\* (50,10) medium, (60,12) high; an unknown class, a blank progression or a
\* class list that failed to load uses the low tier.
C9_MaxHP ==
  (call.fn = "maxHP" /\ call.done) =>
    LET L == ClampedLevel(call.level)
        s == StrengthValue(call.strength)
        tier == TierOfClass(call.classKey, call.loadOk)
        base == CASE tier = "low" -> 40 [] tier = "medium" -> 50 [] tier = "high" -> 60
        per == CASE tier = "low" -> 8 [] tier = "medium" -> 10 [] tier = "high" -> 12
    IN call.hp = base + per * (L - 1) + s * (L + 2)

C9_Witness ==
  /\ call.fn = "maxHP" /\ call.done
  /\ call.level = Num(3) /\ call.classKey = K_mag /\ call.strength = Num(5)
  /\ call.loadOk
  /\ call.hp = 95

(***************************************************************************)
(* C6: idempotence of normalizeCharacterDoc                                *)
(***************************************************************************)

\* The fields C6 names: level, primary attribute, attribute values and the
\* string fields.
NamedFields(d) ==
  [ level |-> d.level, primaryAttribute |-> d.primaryAttribute,
    attributes |-> d.attributes, name |-> d.name, classKey |-> d.classKey,
    portraitPath |-> d.portraitPath, ownerUid |-> d.ownerUid,
    selectedClassFeatureOptions |-> d.selectedClassFeatureOptions,
    selectedFeats |-> d.selectedFeats, autoAbilityNames |-> d.autoAbilityNames,
    visitedSteps |-> d.visitedSteps, abilities |-> d.abilities ]

\* C6: normalizeCharacterDoc is idempotent: normalising a normalised document
\* leaves level, primary attribute, attribute values and every string field
\* as the first normalisation produced them, for every raw document,
\* over-long strings included.
C6_Idempotent ==
  normRun.phase = "twice" => NamedFields(normRun.twice) = NamedFields(normRun.once)

(***************************************************************************)
(* Specification of the step navigation: the wizard of a new character,    *)
(* where the write of a visit mark may fail (markStepVisited swallows the  *)
(* failure) and the level stays 1.                                         *)
(***************************************************************************)

InitNav == InitWizard

NextNav ==
  \/ \E ok \in BOOLEAN : LoadProfilePage(ok) /\ UNCHANGED pureVars
  \/ NameInput(N_bo) /\ UNCHANGED pureVars
  \/ \E by \in Buttons : ProfilePress(by) /\ UNCHANGED pureVars
  \/ \E ok \in BOOLEAN : ProfileConfirmResolve(ok) /\ UNCHANGED pureVars
  \/ \E ok \in BOOLEAN : ProfileEnsureResolve(ok) /\ UNCHANGED pureVars
  \/ \E ok \in BOOLEAN : ProfileWriteResolve(ok) /\ UNCHANGED pureVars
  \/ LoadClassPage /\ UNCHANGED pureVars
  \/ \E key \in ClassOptions : ClassChange(key) /\ UNCHANGED pureVars
  \/ \E p \in AttrKeySet : PrimaryChange(p) /\ UNCHANGED pureVars
  \/ \E by \in Buttons : ClassPress(by) /\ UNCHANGED pureVars
  \/ \E ok \in BOOLEAN : ClassWriteResolve(ok) /\ UNCHANGED pureVars
  \/ \E ok \in BOOLEAN : ClassMarkResolve(ok) /\ UNCHANGED pureVars
  \/ \E ok \in BOOLEAN : LoadAttributesPage(ok) /\ UNCHANGED pureVars
  \/ NavPrev /\ UNCHANGED pureVars
  \/ \E step \in Range(BUILDER_STEPS) : NavStepLink(step) /\ UNCHANGED pureVars
  \/ Reload /\ UNCHANGED pureVars

SpecNav == InitNav /\ [][NextNav]_vars

(***************************************************************************)
(* C11: the links of the step navigation                                   *)
(***************************************************************************)

\* renderBuilderNav, one entry of the step list: the current step is text
\* marked aria-current="step", a visited step is a link, any other is locked.
renderStepEntry(characterDoc, currentStepId, step) ==
  IF step = currentStepId THEN "current"
  ELSE IF step \in (Range(characterDoc.visitedSteps) \cup {currentStepId}) THEN "link"
  ELSE "locked"

\* renderBuilderNav, the Previous control: a link whenever a step precedes.
renderPrevLink(currentStepId) ==
  IF getPrevNext(currentStepId).hasPrev THEN {getPrevNext(currentStepId).prev} ELSE {}

\* The steps the rendered navigation links to.
OfferedLinks ==
  {step \in Range(BUILDER_STEPS) : renderStepEntry(currentDoc, loc, step) = "link"}
    \cup renderPrevLink(loc)

NavRendered == loc \in Range(BUILDER_STEPS) /\ run.pc # "loading"

\* C11: the navigation offers no link, neither a step-list entry nor the
\* Previous control, to a step that is not in builder.visitedSteps (of the
\* document the page loaded or of the stored one), and the current step is
\* non-link text marked aria-current="step".
C11_OnlyVisitedLinked ==
  NavRendered =>
    /\ OfferedLinks \subseteq
         (Range(currentDoc.visitedSteps) \cup Range(db.visitedSteps))
    /\ renderStepEntry(currentDoc, loc, loc) = "current"

(***************************************************************************)
(* C12: Next on a step that fails validation                               *)
(***************************************************************************)

\* The step shown fails the validation its Next runs.
StepInvalid ==
  \/ loc = S_basics /\ Trim(prof.charName) = <<>>
  \/ loc = S_class /\ \/ sel.selectedClassKey = <<>>
                      \/ sel.selectedPrimary = <<>>
                      \/ ~validateBeforeSave(sel).ok
  \/ loc = S_attributes /\ getAttributeWarnings(att) # <<>>

\* Next is pressed on the step shown.
NextPressed == ProfilePress("next") \/ ClassPress("next") \/ AttrPress("next")

\* C12: when Next is pressed on a step whose validation fails, the action is
\* blocked: the stored document is not written and no write is under way,
\* the page stays, and the error banner shows a message.
C12_NextBlocked ==
  [][(StepInvalid /\ NextPressed) =>
       /\ db' = db /\ run' = IdleRun
       /\ loc' = loc
       /\ ui'.error # ""]_vars

\* Next was pressed on the profile step with an empty name.
C12_Witness ==
  /\ OnPage(S_basics) /\ Trim(prof.charName) = <<>>
  /\ ui = Shown("Not saved.", "Character name is empty.")
  /\ db.name = <<>>

(***************************************************************************)
(* C13: Save on an incomplete step                                         *)
(***************************************************************************)

\* Save or Save and open sheet is pressed on the step shown.
SavePressed ==
  \E by \in {"save", "saveOpen"} : ProfilePress(by) \/ ClassPress(by) \/ AttrPress(by)

\* The "Save anyway?" modal of the step shown is confirmed.
SaveConfirmed == ProfileConfirmResolve(TRUE) \/ AttrConfirmResolve(TRUE)

\* C13: on every step a Save pressed while the step is incomplete is not
\* refused: the user is asked to confirm, and once the user confirms the
\* handler goes on to write the patch.
C13_SaveNeverRefused ==
  [][/\ (StepInvalid /\ SavePressed) => run'.pc = "confirm"
     /\ SaveConfirmed => run'.pc \in {"ensuring", "writing"}]_vars

(***************************************************************************)
(* Which user's documents a page works on: initBuilderAuth of the builder  *)
(* steps, initAuth of the sheet editor and the onAuth callback of the      *)
(* character list. A page is opened with a uid parameter or none, by a     *)
(* signed-in user or nobody; the read of the token's claims may fail.      *)
(***************************************************************************)

\* null: nobody signed in, no uid parameter, no uid resolved.
NoUid == <<>>
U_self == <<"u", "1">>
U_other == <<"u", "2">>

\* What the start of a page ends in: where it redirects to, the uid it
\* resolved (editingUid, viewingUid) and whether it goes on to load the
\* documents of that uid.
Outcome(redirect, uid, loads) == [redirect |-> redirect, uid |-> uid, loads |-> loads]

\* initBuilderAuth, with a charId in the address.
initBuilderAuth(user, requestedUid, gm, claimsOk) ==
  LET Resolve(claims) ==
        IF requestedUid # NoUid
        THEN IF ~claims.gm THEN Outcome("characters.html", user, FALSE)
             ELSE Outcome("", requestedUid, TRUE)
        ELSE Outcome("", user, TRUE)
  IN IF user = NoUid THEN Outcome("login.html", NoUid, FALSE)
     ELSE Resolve(IF claimsOk THEN [gm |-> gm] ELSE [gm |-> FALSE])

\* initAuth of the sheet editor, with a charId in the address.
initAuth(user, requestedUidParam, gm, claimsOk) ==
  LET Resolve(isGMUser) ==
        Outcome("", IF isGMUser /\ requestedUidParam # NoUid
                    THEN requestedUidParam ELSE user, TRUE)
  IN IF user = NoUid THEN Outcome("login.html", NoUid, FALSE)
     ELSE Resolve(IF claimsOk THEN gm ELSE FALSE)

\* The onAuth callback of the character list: getClaims is awaited outside
\* any try, so a failed read ends the callback where it stands.
onAuthCharacters(user, requestedUid, gm, claimsOk) ==
  IF user = NoUid THEN Outcome("login.html", NoUid, FALSE)
  ELSE IF ~claimsOk THEN Outcome("", NoUid, FALSE)
  ELSE IF requestedUid # NoUid /\ ~gm THEN Outcome("characters.html", user, FALSE)
  ELSE Outcome("", IF requestedUid # NoUid /\ gm THEN requestedUid ELSE user, TRUE)

AuthPages == {"builder", "editor", "characters"}

AuthOutcome(page, user, requestedUid, gm, claimsOk) ==
  CASE page = "builder" -> initBuilderAuth(user, requestedUid, gm, claimsOk)
    [] page = "editor" -> initAuth(user, requestedUid, gm, claimsOk)
    [] page = "characters" -> onAuthCharacters(user, requestedUid, gm, claimsOk)

AuthRequests ==
  {[fn |-> page, done |-> FALSE, user |-> u, requestedUid |-> r, gm |-> g, claimsOk |-> ok] :
     page \in AuthPages, u \in {NoUid, U_self}, r \in {NoUid, U_self, U_other},
     g \in BOOLEAN, ok \in BOOLEAN}

\* The page named by the request starts up.
OpenPage(page) ==
  /\ call.fn = page /\ ~call.done
  /\ call' = [fn |-> page, done |-> TRUE, user |-> call.user,
              requestedUid |-> call.requestedUid, gm |-> call.gm,
              claimsOk |-> call.claimsOk,
              res |-> AuthOutcome(page, call.user, call.requestedUid, call.gm,
                                  call.claimsOk)]

InitAuth ==
  /\ call \in AuthRequests
  /\ normRun = NoNorm /\ ed = NoEd /\ saving = <<>>
  /\ NoWizard

NextAuth ==
  \/ OpenPage("builder") /\ UNCHANGED normVars
  \/ OpenPage("editor") /\ UNCHANGED normVars
  \/ OpenPage("characters") /\ UNCHANGED normVars

SpecAuth == InitAuth /\ [][NextAuth]_vars

(***************************************************************************)
(* C14: another user's uid only for a GM                                   *)
(***************************************************************************)

PageOpened == call.fn \in AuthPages /\ call.done

\* C14: on every page that takes a uid parameter the uid the page works on
\* differs from the signed-in uid only if the token carries gm = true, and
\* a failed read of the claims ends as the same request with gm = false.
C14_OtherUidOnlyForGm ==
  PageOpened =>
    /\ call.res.uid \notin {NoUid, call.user} => call.gm /\ call.claimsOk
    /\ ~call.claimsOk =>
         call.res = AuthOutcome(call.fn, call.user, call.requestedUid, FALSE, TRUE)

(***************************************************************************)
(* C15: a non-GM asking for another user's uid                             *)
(***************************************************************************)

\* C15: a signed-in user without the GM claim who asks for another uid is
\* redirected to the character list, and the page loads no document.
C15_NonGmRedirected ==
  (/\ PageOpened /\ call.user # NoUid /\ ~call.gm
   /\ call.requestedUid \notin {NoUid, call.user}) =>
    /\ call.res.redirect = "characters.html"
    /\ ~call.res.loads

(***************************************************************************)
(* C16: a class-step save whose write fails                                *)
(***************************************************************************)

\* The write of a class-step save settles and the stored document lacks a
\* value of the patch: the write failed.
ClassWriteFailed == loc = S_class /\ run.pc = "writing" /\ ~PatchStored(db', run.patch)

\* C16: when the write of a class-step save fails, the handler ends with the
\* status "Error." and the error banner "Could not save.", the page's copy
\* of the document is as it was, the page stays, the stored document is
\* untouched and nothing is under way; a write starts only from the idle
\* page, by a press of Save, Save and open sheet or Next.
C16_FailedWrite ==
  [][/\ ClassWriteFailed =>
          /\ ui' = Shown("Error.", "Could not save.")
          /\ currentDoc' = currentDoc
          /\ loc' = loc /\ db' = db
          /\ run' = IdleRun
     /\ (loc = S_class /\ run.pc # "writing" /\ run'.pc = "writing") =>
          /\ run.pc = "idle"
          /\ \E by \in Buttons : ClassPress(by)]_vars

\* A class-step save of a new class ended in a failed write.
C16_Witness ==
  /\ OnPage(S_class) /\ ui = Shown("Error.", "Could not save.")
  /\ sel.selectedClassKey # <<>> /\ db.classKey = <<>>
  /\ currentDoc.classKey = <<>>

(***************************************************************************)
(* Specification of the schema gate: saveCharacterPatch is called on a     *)
(* stored document with patches whose keys lie inside and outside          *)
(* builder.*.                                                              *)
(***************************************************************************)

GateKeys ==
  { F_schemaVersion, F_name, F_level, F_abilities, F_ownerUid, F_updatedAt,
    <<"name">>, <<"builder">>, <<"builderX", "name">>, <<"sheet", "fields">> }

\* The raw value a patch gives a key.
GateValue(k) ==
  CASE k = F_schemaVersion -> Num(12345)
    [] k = F_name -> N_untidy
    [] k = F_level -> Num(13)
    [] k = F_abilities -> <<AutoTough>>
    [] k = F_ownerUid -> U_other
    [] OTHER -> Str(<<"x">>)

GatePatches == {[k \in ks |-> GateValue(k)] : ks \in SUBSET GateKeys}

GateRequests == {[fn |-> "saveCharacterPatch", done |-> FALSE, patch |-> p] : p \in GatePatches}

CallSaveCharacterPatch ==
  /\ call.fn = "saveCharacterPatch" /\ ~call.done
  /\ call' = [fn |-> "saveCharacterPatch", done |-> TRUE, patch |-> call.patch,
              cleaned |-> sanitizeUpdatePatch(call.patch),
              data |-> SaveData(call.patch),
              doc |-> saveCharacterPatch(WarDoc, call.patch)]

InitGate ==
  /\ call \in GateRequests
  /\ normRun = NoNorm /\ ed = NoEd /\ saving = <<>>
  /\ NoWizard

NextGate == CallSaveCharacterPatch /\ UNCHANGED normVars

SpecGate == InitGate /\ [][NextGate]_vars

(***************************************************************************)
(* C17: the schema gate                                                    *)
(***************************************************************************)

\* schemaVersion, or a key that starts with "builder.".
InsideGate(k) == k = <<"schemaVersion">> \/ (Len(k) > 1 /\ Head(k) = "builder")

\* C17: the output of sanitizeUpdatePatch has no key other than
\* schemaVersion and keys starting with "builder.", so a write through
\* saveCharacterPatch names only schemaVersion, builder.* paths and
\* updatedAt, and leaves the owner of the stored document as it is.
C17_SchemaGate ==
  (call.fn = "saveCharacterPatch" /\ call.done) =>
    /\ \A k \in DOMAIN call.cleaned : InsideGate(k)
    /\ \A k \in DOMAIN call.data : InsideGate(k) \/ k = <<"updatedAt">>
    /\ call.doc.ownerUid = WarDoc.ownerUid

\* A patch with keys inside and outside the gate was written.
C17_Witness ==
  /\ call.fn = "saveCharacterPatch" /\ call.done
  /\ {F_name, F_ownerUid, <<"name">>, <<"builderX", "name">>} \subseteq DOMAIN call.patch
  /\ F_name \in DOMAIN call.cleaned
  /\ call.doc.name = <<"B", "o", " ", "L", "e", "e">>

(***************************************************************************)
(* C18: what a class-step save writes                                      *)
(***************************************************************************)

\* The paths C18 lets a class-step save change, and paths it says stay.
ClassSavePaths ==
  { <<"builder", "level">>, <<"builder", "classKey">>, <<"builder", "primaryAttribute">>,
    <<"builder", "selectedClassFeatureOptions">>, <<"builder", "selectedFeats">>,
    <<"builder", "autoAbilityNames">>, <<"builder", "sheet", "repeatables", "abilities">>,
    <<"builder", "visitedSteps">>, <<"builder", "lastVisitedAt">>, <<"updatedAt">> }

FramePaths ==
  { <<"builder", "name">>, <<"builder", "portraitPath">>, <<"builder", "attributes">>,
    <<"builder", "sheet", "fields">>, <<"builder", "sheet", "repeatables", "inventory">> }

IsPrefix(p, q) == Len(p) <= Len(q) /\ SubSeq(q, 1, Len(p)) = p

\* A write to path p replaces what is stored at p: it reaches q when one of
\* the two paths leads to the other.
Touches(p, q) == IsPrefix(p, q) \/ IsPrefix(q, p)

\* A write of a class-step save settles: the patch, then the visit mark.
ClassSaveWrites == loc = S_class /\ run.pc \in {"writing", "marking"}

\* The paths the settling write names.
ClassSaveWritten ==
  IF run.pc = "writing" THEN DOMAIN run.patch \cup {F_updatedAt} ELSE MarkPaths

\* C18: a class-step save names only the level, class key, primary
\* attribute, selected options, selected feats, tracked names, abilities
\* list, visited steps, lastVisitedAt and updatedAt; no path it names
\* reaches the name, the portrait path, the attributes, the sheet fields or
\* another repeatable list, and the stored name, portrait path, attributes,
\* owner and schema version stay as they are.
C18_PathScoped ==
  [][ClassSaveWrites =>
       /\ ClassSaveWritten \subseteq ClassSavePaths
       /\ \A p \in ClassSaveWritten, q \in FramePaths : ~Touches(p, q)
       /\ \A f \in {"name", "portraitPath", "attributes", "ownerUid", "schemaVersion"} :
            db'[f] = db[f]]_vars

\* A class-step save of a named character with saved attributes went through.
C18_Witness ==
  /\ OnPage(S_class) /\ hist.w.step = S_class
  /\ db.name # <<>> /\ db.classKey # <<>>
  /\ \E k \in AttrKeySet : db.attributes[k] \notin {Undefined, Num(0)}

(***************************************************************************)
(* C21: what a class-step save writes is a valid selection                 *)
(***************************************************************************)

\* The write of a class-step save goes through.
ClassPatchWritten ==
  loc = S_class /\ run.pc = "writing" /\ run'.pc = "marking" /\ PatchStored(db', run.patch)

\* The option groups of the class at or below the level that ask for picks.
GroupsToFill(classKey, level) ==
  {g \in Range(ClassFeaturesOf(classKey)) :
     g.type = "optionGroup" /\ g.level <= level /\ g.chooseCount > 0}

\* C21: every patch a class-step save writes names a class of the game data
\* that is selectable and a primary attribute that is one of the class's two,
\* holds exactly chooseCount options of each visible option group with
\* chooseCount > 0, and holds at most floor(level / 2) feats.
C21_ValidPatch ==
  [][ClassPatchWritten =>
       /\ \E i \in DOMAIN GameData.classes :
            /\ GameData.classes[i].classKey = run.patch[F_classKey]
            /\ classSelectableInfo([found |-> TRUE, cls |-> GameData.classes[i]])
            /\ run.patch[F_primaryAttribute] \in
                 Range(getAllowedPrimaryAttributes([found |-> TRUE, cls |-> GameData.classes[i]]))
       /\ \A g \in GroupsToFill(run.patch[F_classKey], run.patch[F_level].n) :
            PickedIn(g, run.patch[F_selectedClassFeatureOptions]) = g.chooseCount
       /\ Len(run.patch[F_selectedFeats]) <= run.patch[F_level].n \div 2]_vars

\* A class save whose option group holds its one pick was written.
C21_Witness ==
  /\ OnPage(S_class) /\ hist.w.step = S_class
  /\ db.classKey = K_mag /\ db.primaryAttribute \in {A_intellect, A_willpower}
  /\ GroupsToFill(db.classKey, db.level.n) # {}
  /\ Len(db.selectedClassFeatureOptions) = 1

(***************************************************************************)
(* Class step, saves that overlap (builder-class.js, builder-nav.js): the  *)
(* click handlers of the Save buttons and of Next each call saveClassStep, *)
(* which awaits the document write and then the visit mark; the page takes *)
(* further events while a call awaits. Each call keeps the patch it built  *)
(* before its first await.                                                 *)
(***************************************************************************)

\* How many saveClassStep calls are followed at a time.
MaxOverlap == 2

\* A Next button is disabled while its handler runs; the Save buttons are
\* disabled for a class that is not selectable, and by nothing else.
ButtonEnabled(by) ==
  IF by = "next"
  THEN getPrevNext(loc).hasNext /\ \A i \in DOMAIN saving : saving[i].by # "next"
  ELSE LET Selectable(c) == ~(c.found /\ ~classSelectableInfo(c))
       IN Selectable(getClassByKey(sel.selectedClassKey))

Without(seq, i) == SubSeq(seq, 1, i - 1) \o SubSeq(seq, i + 1, Len(seq))

\* A button is pressed: saveClassStep up to its first await.
RacePress(by) ==
  /\ OnPage(S_class)
  /\ Len(saving) < MaxOverlap
  /\ ButtonEnabled(by)
  /\ LET Write(autoNames, mergedAbilities) ==
           /\ saving' = Append(saving,
                 [pc |-> "writing", by |-> by,
                  patch |-> sanitizeUpdatePatch(ClassPatch(sel, autoNames, mergedAbilities)),
                  autoNames |-> autoNames, mergedAbilities |-> mergedAbilities])
           /\ ui' = SavingUi
         Merge(autoAbilities) ==
           Write([i \in 1..Len(autoAbilities) |-> autoAbilities[i].name],
                 mergeAbilities(currentDoc.abilities, currentDoc.autoAbilityNames,
                                autoAbilities))
         Judged(v) ==
           IF ~v.ok THEN ui' = Shown("Not saved.", v.msg) /\ saving' = saving
           ELSE Merge(buildAutoAbilities(sel))
     IN Judged(validateBeforeSave(sel))
  /\ UNCHANGED <<db, loc, currentDoc, sel, att, prof, run, hist>>

\* await saveCharacterPatch(...) of call i settles.
RaceWriteResolve(i, ok) ==
  /\ loc = S_class /\ i \in DOMAIN saving /\ saving[i].pc = "writing"
  /\ IF ok
     THEN /\ db' = updateDoc(db, saving[i].patch)
          /\ saving' = [saving EXCEPT ![i].pc = "marking"]
          /\ UNCHANGED ui
     ELSE /\ saving' = Without(saving, i)
          /\ ui' = Shown("Error.", E_save)
          /\ UNCHANGED db
  /\ UNCHANGED <<loc, currentDoc, sel, att, prof, run, hist>>

\* await markStepVisited(...) of call i settles, then the rest of
\* saveClassStep and, for Next, of the Next handler; leaving the page ends
\* the calls still awaiting.
RaceMarkResolve(i, ok) ==
  /\ loc = S_class /\ i \in DOMAIN saving /\ saving[i].pc = "marking"
  /\ db' = IF ok THEN markStepVisited(db, S_class) ELSE db
  /\ IF saving[i].by = "save"
     THEN /\ currentDoc' = ClassCacheUpdate(currentDoc, sel, saving[i].autoNames,
                                            saving[i].mergedAbilities)
          /\ saving' = Without(saving, i)
          /\ ui' = Shown("Saved.", ui.error)
          /\ UNCHANGED <<loc, sel, att, prof, run, hist>>
     ELSE /\ Leave(IF saving[i].by = "next" THEN getPrevNext(loc).next ELSE P_editor,
                   saving[i].by, TRUE, PatchStored(db', saving[i].patch), hist)
          /\ saving' = <<>>

\* The page is opened on a saved level-2 selection; the class select is
\* moved between that class and no class.
RaceDocs == {EditedDoc}
RaceClasses == {<<>>, K_war}

InitRace ==
  /\ call = NoCall /\ normRun = NoNorm /\ ed = NoEd
  /\ saving = <<>>
  /\ db \in RaceDocs
  /\ hist = NoHist /\ ui = LoadingUi
  /\ loc = S_class /\ run = LoadingRun
  /\ currentDoc = NoDoc /\ sel = NoSelection /\ att = NoAtt /\ prof = NoProf

Aside == UNCHANGED <<call, normRun, ed>>

NextRace ==
  \/ LoadClassPage /\ Aside /\ UNCHANGED saving
  \/ \E key \in RaceClasses : ClassChange(key) /\ Aside /\ UNCHANGED saving
  \/ \E i \in FeatIndexes : ToggleFeat(i) /\ Aside /\ UNCHANGED saving
  \/ \E by \in Buttons : RacePress(by) /\ Aside
  \/ \E i \in 1..MaxOverlap, ok \in BOOLEAN : RaceWriteResolve(i, ok) /\ Aside
  \/ \E i \in 1..MaxOverlap, ok \in BOOLEAN : RaceMarkResolve(i, ok) /\ Aside

SpecRace == InitRace /\ [][NextRace]_vars

(***************************************************************************)
(* C22: class-step saves in flight                                         *)
(***************************************************************************)

\* The saveClassStep calls that await their document write.
AwaitingWrite == {i \in DOMAIN saving : saving[i].pc = "writing"}

\* C22: in the class step at most one save awaits its document write at
\* any time: while one does, no second saveClassStep call starts.
C22_OneSaveInFlight == Cardinality(AwaitingWrite) <= 1

(***************************************************************************)
(* Sheet editor (app.js): scheduleSave, its two timers, saveCloudNow and   *)
(* the end of loadCloudOrInit. The form is a version number: an edit and   *)
(* the applyState of a loaded cloud document each make a new version.      *)
(* Time is counted in milliseconds and passes in steps of the shorter      *)
(* delay; a timer fires once it is due, before more time passes. The       *)
(* record keeps, for the checks, the saves made since the last edit.       *)
(***************************************************************************)

SAVE_DEBOUNCE_MS == 400
CLOUD_SAVE_DEBOUNCE_MS == 1200

\* How many edits the user makes, and how long the page is watched.
MaxEdits == 3
MaxTime == 3200

TimeStep == SAVE_DEBOUNCE_MS

\* cloudEnabled: currentUser, cloudDocRef and cloudReady are all set.
cloudEnabled(e) == e.user # NoUid /\ e.docRef # NoUid /\ e.cloudReady

clearTimeout(e, id) == [e EXCEPT !.pending = {t \in @ : t.id # id}]

\* setTimeout returns the id e.nextId.
setTimeout(e, kind, delay) ==
  [e EXCEPT !.pending = @ \cup {[id |-> e.nextId, kind |-> kind, due |-> e.now + delay]},
            !.nextId = @ + 1]

\* A scheduleSave that arms its timers without clearing the ones it holds.
scheduleSaveNoClear(e) ==
  LET Local(c) == [setTimeout(c, "local", SAVE_DEBOUNCE_MS) EXCEPT !.saveTimer = c.nextId]
      Cloud(c) ==
        [setTimeout(c, "cloud", CLOUD_SAVE_DEBOUNCE_MS) EXCEPT !.cloudSaveTimer = c.nextId]
  IN IF ~e.storageOk /\ ~cloudEnabled(e) THEN e
     ELSE IF cloudEnabled(e) THEN Cloud(Local(e)) ELSE Local(e)

scheduleSave(e) ==
  LET ArmLocal(c) == [setTimeout(c, "local", SAVE_DEBOUNCE_MS) EXCEPT !.saveTimer = c.nextId]
      ArmCloud(c) ==
        [setTimeout(c, "cloud", CLOUD_SAVE_DEBOUNCE_MS) EXCEPT !.cloudSaveTimer = c.nextId]
      Local(c) == ArmLocal(clearTimeout(c, c.saveTimer))
      Cloud(c) == ArmCloud(clearTimeout(c, c.cloudSaveTimer))
  IN IF ~e.storageOk /\ ~cloudEnabled(e) THEN e
     ELSE IF cloudEnabled(e) THEN Cloud(Local(e)) ELSE Local(e)

\* A save of the form as it is now.
SaveOf(e, kind, ok) == [kind |-> kind, form |-> e.form, ok |-> ok]

\* An input or change event of the sheet: the form changes, scheduleSave runs.
Edit ==
  /\ ed.open /\ ed.edits < MaxEdits
  /\ ed.now + CLOUD_SAVE_DEBOUNCE_MS <= MaxTime
  /\ ed' = scheduleSave([ed EXCEPT !.form = @ + 1, !.edits = @ + 1,
                                   !.edited = ed.form + 1, !.log = <<>>,
                                   !.atEdit = [storageOk |-> ed.storageOk,
                                               cloudReady |-> cloudEnabled(ed)]])

\* The callback of the local timer: collectState and setItem, which may throw.
FireLocal(setOk) ==
  /\ ed.open
  /\ \E t \in ed.pending :
       /\ t.kind = "local" /\ t.due <= ed.now
       /\ LET Run(e) ==
                IF ~e.storageOk THEN e
                ELSE [e EXCEPT !.log = Append(@, SaveOf(e, "local", setOk)),
                               !.storageOk = setOk]
          IN ed' = Run([ed EXCEPT !.pending = @ \ {t}])

\* saveCloudNow, called by the cloud timer: the state is collected, then
\* setDoc is awaited; its failure only changes the cloud status shown.
FireCloud(setOk) ==
  /\ ed.open
  /\ \E t \in ed.pending :
       /\ t.kind = "cloud" /\ t.due <= ed.now
       /\ LET saveCloudNow(e) ==
                IF ~cloudEnabled(e) THEN e
                ELSE [e EXCEPT !.log = Append(@, SaveOf(e, "cloud", setOk))]
          IN ed' = saveCloudNow([ed EXCEPT !.pending = @ \ {t}])

\* Time passes while no timer is due.
Tick ==
  /\ ed.open /\ ed.now < MaxTime
  /\ \A t \in ed.pending : t.due > ed.now
  /\ ed' = [ed EXCEPT !.now = @ + TimeStep]

\* loadCloudOrInit ends: a stored document was applied to the form, or the
\* baseline was written, or the read or the write failed.
LoadCloud(exists, ok) ==
  /\ ed.open /\ ed.loading
  /\ ed' = [ed EXCEPT !.loading = FALSE, !.cloudReady = ok,
                      !.form = IF exists /\ ok THEN @ + 1 ELSE @,
                      !.applied = IF exists /\ ok THEN ed.form + 1 ELSE @]

\* The class list loader of the page before its first call:
\* _gameXClassesPromise is null (0), no promise was made, nobody called.
NoClassesLoad == [promise |-> 0, promises |-> <<>>, callers |-> <<>>, fetches |-> 0]

\* The form fields the derived display reads, as the blank sheet has them.
BlankFields ==
  [level |-> Str(<<"1">>), classSelect |-> <<>>, primaryAttribute |-> <<>>,
   strength |-> Str(<<>>)]

\* The portrait module: portraitPath, whether a preview is shown, and what
\* the next cloud save is to upload and to delete.
NoPortrait == [path |-> <<>>, preview |-> FALSE, pendingUpload |-> FALSE, pendingDelete |-> <<>>]

\* A cloud document that does not exist.
NoCloudDoc == [exists |-> FALSE, portraitPath |-> <<>>]

\* The editor once the onAuth callback has resolved the document and
\* loadCloudOrInit awaits its read.
OpenEd(storageOk) ==
  [ open |-> TRUE, form |-> 0, edits |-> 0, edited |-> 0, applied |-> 0, now |-> 0,
    nextId |-> 1, pending |-> {}, saveTimer |-> 0, cloudSaveTimer |-> 0,
    storageOk |-> storageOk, cloudReady |-> FALSE, loading |-> TRUE, log |-> <<>>,
    atEdit |-> [storageOk |-> FALSE, cloudReady |-> FALSE],
    user |-> U_self, editingUid |-> U_self, docRef |-> U_self, auths |-> <<>>,
    authChanges |-> 0,
    portrait |-> NoPortrait, saves |-> <<>>, issued |-> <<>>,
    docs |-> [u \in {U_self, U_other} |-> NoCloudDoc], objects |-> {},
    cloudStatus |-> "Cloud: Loading...",
    fields |-> BlankFields, derivedSeq |-> 0, derived |-> <<>>, hpmax |-> <<>>,
    lastDerived |-> [fields |-> BlankFields, loadOk |-> FALSE], staleDropped |-> FALSE,
    classes |-> NoClassesLoad ]

InitEditor ==
  /\ call = NoCall /\ normRun = NoNorm
  /\ NoWizard
  /\ ed \in {OpenEd(storageOk) : storageOk \in BOOLEAN} /\ saving = <<>>

NextEditor ==
  \/ Edit /\ UNCHANGED <<call, normRun, wizardVars, saving>>
  \/ \E setOk \in BOOLEAN : FireLocal(setOk) /\ UNCHANGED <<call, normRun, wizardVars, saving>>
  \/ \E setOk \in BOOLEAN : FireCloud(setOk) /\ UNCHANGED <<call, normRun, wizardVars, saving>>
  \/ Tick /\ UNCHANGED <<call, normRun, wizardVars, saving>>
  \/ \E exists \in BOOLEAN, ok \in BOOLEAN :
        LoadCloud(exists, ok) /\ UNCHANGED <<call, normRun, wizardVars, saving>>

SpecEditor == InitEditor /\ [][NextEditor]_vars

\* The browser runs a timer that is due, and time passes.
SpecEditorLive ==
  /\ SpecEditor
  /\ WF_vars(Tick /\ UNCHANGED <<call, normRun, wizardVars, saving>>)
  /\ WF_vars((\E setOk \in BOOLEAN : FireLocal(setOk)) /\ UNCHANGED <<call, normRun, wizardVars, saving>>)
  /\ WF_vars((\E setOk \in BOOLEAN : FireCloud(setOk)) /\ UNCHANGED <<call, normRun, wizardVars, saving>>)

(***************************************************************************)
(* C19: the debounced saves of the sheet editor                            *)
(***************************************************************************)

SavesOf(kind) == SelectSeq(ed.log, LAMBDA sv : sv.kind = kind)

OnePendingEach ==
  \A kind \in {"local", "cloud"} : Cardinality({t \in ed.pending : t.kind = kind}) <= 1

\* Edits were made and no timer is pending any more.
Settled == ed.open /\ ed.edits > 0 /\ ed.pending = {}

\* No cloud save was made before a local one.
LocalFirst ==
  \A i, j \in DOMAIN ed.log : i < j => ~(ed.log[i].kind = "cloud" /\ ed.log[j].kind = "local")

SettledRight ==
  /\ Len(SavesOf("local")) = IF ed.atEdit.storageOk THEN 1 ELSE 0
  /\ Len(SavesOf("cloud")) = IF ed.atEdit.cloudReady THEN 1 ELSE 0
  /\ \A i \in DOMAIN ed.log : ed.log[i].form \in {ed.edited, ed.applied}
  /\ ed.applied < ed.edited => \A i \in DOMAIN ed.log : ed.log[i].form = ed.edited
  /\ LocalFirst

MaxAuthChanges == 2

\* charId of the address.
CharId == <<"c", "1">>

UidMaxLen == 128

\* getPortraitStoragePath
getPortraitStoragePath(uid, charId) ==
  LET Path(safeUid, safeId) ==
        IF safeUid = <<>> \/ safeId = <<>> THEN <<>>
        ELSE <<"p", "o", "r", "t", "r", "a", "i", "t", "s", "/">> \o safeUid \o <<"/">>
               \o safeId \o <<"/", "p", "o", "r", "t", "r", "a", "i", "t">>
  IN Path(sanitizeText(uid, UidMaxLen, TRUE), sanitizeText(charId, UidMaxLen, TRUE))

\* setCloudStatus
E_cloudFailed == "Cloud: Save failed"

\* The onAuth callback up to its first await: the cloud is switched off,
\* then the login page is opened or the claims are read.
AuthChange(u) ==
  /\ ed.open /\ ed.authChanges < MaxAuthChanges
  /\ u # ed.user
  /\ LET Reset(e) == [e EXCEPT !.user = u, !.docRef = NoUid, !.cloudReady = FALSE,
                               !.authChanges = @ + 1]
     IN ed' = IF u = NoUid
              THEN [Reset(ed) EXCEPT !.cloudStatus = "Cloud: Off", !.open = FALSE]
              ELSE [Reset(ed) EXCEPT !.auths = Append(@, [user |-> u, pc |-> "claims"])]

\* await getClaims(...) of callback i settles: editingUid and cloudDocRef
\* are resolved, then loadCloudOrInit runs up to await getDoc(...).
AuthClaims(i) ==
  /\ ed.open /\ i \in DOMAIN ed.auths /\ ed.auths[i].pc = "claims"
  /\ LET Resolved(uid) ==
           [ed EXCEPT !.editingUid = uid, !.docRef = uid,
                      !.auths[i] = [user |-> ed.auths[i].user, pc |-> "load", ref |-> uid],
                      !.cloudStatus = "Cloud: Loading..."]
     IN ed' = Resolved(initAuth(ed.auths[i].user, NoUid, FALSE, TRUE).uid)

\* await getDoc(...) of callback i settles, then the rest of
\* loadCloudOrInit: the document is applied to the form, or the baseline
\* is written to cloudDocRef as it is now.
AuthLoad(i, ok, setOk) ==
  /\ ed.open /\ i \in DOMAIN ed.auths /\ ed.auths[i].pc = "load"
  /\ LET Ended(e) == [e EXCEPT !.auths = Without(@, i)]
         Failed == [Ended(ed) EXCEPT !.cloudReady = FALSE, !.cloudStatus = "Cloud: Error"]
         Applied(doc) ==
           [Ended(ed) EXCEPT !.form = @ + 1, !.applied = ed.form + 1,
                             !.portrait.path = sanitizeStoragePath(doc.portraitPath),
                             !.portrait.preview = sanitizeStoragePath(doc.portraitPath) # <<>>,
                             !.cloudReady = TRUE, !.cloudStatus = "Cloud: Ready"]
         Baseline ==
           IF ed.docRef = NoUid \/ ~setOk THEN Failed
           ELSE [Ended(ed) EXCEPT
                   !.docs[ed.docRef] =
                      [exists |-> TRUE,
                       portraitPath |-> sanitizeStoragePath(ed.portrait.path)],
                   !.cloudReady = TRUE, !.cloudStatus = "Cloud: Ready"]
         Read(doc) ==
           IF ~ok THEN Failed ELSE IF doc.exists THEN Applied(doc) ELSE Baseline
     IN ed' = Read(ed.docs[ed.auths[i].ref])

\* handleFile ends: the image is kept for the next cloud save.
PickPortrait ==
  /\ ed.open /\ ed.edits < MaxEdits
  /\ ed.now + CLOUD_SAVE_DEBOUNCE_MS <= MaxTime
  /\ ed' = scheduleSave([ed EXCEPT !.portrait.preview = TRUE,
                                   !.portrait.pendingUpload = TRUE,
                                   !.edits = @ + 1])

\* The clear button of the portrait box, shown while there is a preview.
ClearPortrait ==
  /\ ed.open /\ ed.edits < MaxEdits
  /\ ed.now + CLOUD_SAVE_DEBOUNCE_MS <= MaxTime
  /\ ed.portrait.preview
  /\ ed' = scheduleSave(
             [ed EXCEPT !.portrait =
                          [path |-> <<>>, preview |-> FALSE, pendingUpload |-> FALSE,
                           pendingDelete |-> IF ed.portrait.path # <<>>
                                             THEN ed.portrait.path
                                             ELSE ed.portrait.pendingDelete],
                        !.edits = @ + 1])

\* setDoc(cloudDocRef, cloudDoc, { merge: true }) is called by save sv: with
\* no document reference the call throws and the save ends in its catch.
IssueWrite(e, sv, path) ==
  IF e.docRef = NoUid THEN [e EXCEPT !.cloudStatus = E_cloudFailed]
  ELSE [e EXCEPT
          !.saves = Append(@, [sv EXCEPT !.pc = "write", !.ref = e.docRef, !.path = path]),
          !.issued = Append(@, [ref |-> e.docRef, user |-> e.user, ready |-> e.cloudReady])]

\* The cloud timer runs saveCloudNow up to its first await.
CloudFire ==
  /\ ed.open
  /\ \E t \in ed.pending :
       /\ t.kind = "cloud" /\ t.due <= ed.now
       /\ LET Save(pendingDelete, pending, storagePath) ==
                [pc |-> "storage", ref |-> NoUid, path |-> storagePath,
                 upload |-> pending,
                 del |-> IF pending /\ pendingDelete = storagePath THEN <<>> ELSE pendingDelete,
                 hadUpload |-> pending, hadDelete |-> pendingDelete]
              Start(e, sv) ==
                IF sv.upload /\ sv.path = <<>> THEN [e EXCEPT !.cloudStatus = E_cloudFailed]
                ELSE IF sv.upload \/ sv.del # <<>> THEN [e EXCEPT !.saves = Append(@, sv)]
                ELSE IssueWrite(e, sv, sanitizeStoragePath(ed.portrait.path))
              Consume(e) ==
                Start([e EXCEPT !.portrait.pendingUpload = FALSE,
                                !.portrait.pendingDelete = <<>>],
                      Save(sanitizeStoragePath(e.portrait.pendingDelete),
                           e.portrait.pendingUpload,
                           getPortraitStoragePath(e.editingUid, CharId)))
              saveCloudNow(e) == IF ~cloudEnabled(e) THEN e ELSE Consume(e)
          IN ed' = saveCloudNow([ed EXCEPT !.pending = @ \ {t}])

\* The storage phase of save i settles: a failed delete is ignored, a
\* failed upload ends the save in its catch; then setDoc is called.
CloudStorageResolve(i, ok) ==
  /\ ed.open /\ i \in DOMAIN ed.saves /\ ed.saves[i].pc = "storage"
  /\ LET Ended(e) == [e EXCEPT !.saves = Without(@, i)]
         Deleted(e, sv) == [e EXCEPT !.objects = @ \ {sv.del}]
         Uploaded(e, sv) ==
           [e EXCEPT !.objects = @ \cup {sv.path},
                     !.portrait.path = sv.path, !.portrait.preview = TRUE]
         Go(sv) ==
           IF ~sv.upload
           THEN IssueWrite(Deleted(Ended(ed), sv), sv, sanitizeStoragePath(ed.portrait.path))
           ELSE IF ~ok THEN [Deleted(Ended(ed), sv) EXCEPT !.cloudStatus = E_cloudFailed]
           ELSE IssueWrite(Uploaded(Deleted(Ended(ed), sv), sv), sv, sv.path)
     IN ed' = Go(ed.saves[i])

\* await setDoc(...) of save i settles.
CloudWriteResolve(i, ok) ==
  /\ ed.open /\ i \in DOMAIN ed.saves /\ ed.saves[i].pc = "write"
  /\ LET Ended(e) == [e EXCEPT !.saves = Without(@, i)]
         Settle(sv) ==
           IF ok THEN [Ended(ed) EXCEPT
                         !.docs[sv.ref] = [exists |-> TRUE, portraitPath |-> sv.path],
                         !.cloudStatus = "Cloud: Saved"]
           ELSE [Ended(ed) EXCEPT !.cloudStatus = E_cloudFailed]
     IN ed' = Settle(ed.saves[i])

\* The page script has run; no onAuth callback has yet. Browser storage is
\* blocked, so the cloud is the only place the sheet is saved to. The
\* signed-in user's document exists or not.
OpenCloud(exists) ==
  [ OpenEd(FALSE) EXCEPT
      !.user = NoUid, !.editingUid = NoUid, !.docRef = NoUid, !.loading = FALSE,
      !.docs[U_self] = [exists |-> exists, portraitPath |-> <<>>],
      !.cloudStatus = "" ]

InitCloud ==
  /\ call = NoCall /\ normRun = NoNorm /\ saving = <<>>
  /\ NoWizard
  /\ ed \in {OpenCloud(exists) : exists \in BOOLEAN}

Rest == UNCHANGED <<call, normRun, wizardVars, saving>>

NextCloud ==
  \/ \E u \in {NoUid, U_self, U_other} : AuthChange(u) /\ Rest
  \/ \E i \in 1..MaxAuthChanges : AuthClaims(i) /\ Rest
  \/ \E i \in 1..MaxAuthChanges, ok \in BOOLEAN, setOk \in BOOLEAN :
        AuthLoad(i, ok, setOk) /\ Rest
  \/ PickPortrait /\ Rest
  \/ ClearPortrait /\ Rest
  \/ Tick /\ Rest
  \/ \E setOk \in BOOLEAN : FireLocal(setOk) /\ Rest
  \/ CloudFire /\ Rest
  \/ \E i \in 1..MaxEdits, ok \in BOOLEAN : CloudStorageResolve(i, ok) /\ Rest
  \/ \E i \in 1..MaxEdits, ok \in BOOLEAN : CloudWriteResolve(i, ok) /\ Rest

SpecCloud == InitCloud /\ [][NextCloud]_vars

(***************************************************************************)
(* C23: when saveCloudNow writes                                           *)
(***************************************************************************)

\* C23: saveCloudNow calls setDoc only while a user is signed in, the
\* document reference is resolved and cloudReady is set.
C23_WritesOnlyWhenEnabled ==
  \A i \in DOMAIN ed.issued :
    /\ ed.issued[i].user # NoUid /\ ed.issued[i].ref # NoUid
    /\ ed.issued[i].ready

(***************************************************************************)
(* C24: the portrait waiting for upload when a cloud save fails            *)
(***************************************************************************)

\* Save i ends in the catch of saveCloudNow.
SaveFails(i) ==
  /\ i \in DOMAIN ed.saves
  /\ ed'.saves = Without(ed.saves, i)
  /\ ed'.cloudStatus = E_cloudFailed

\* C24: when a cloud save fails on its upload or on its document write,
\* the upload and the delete it took from the portrait module are recorded
\* there again afterwards, for the next cloud save to attempt.
C24_PendingKept ==
  [][\A i \in 1..MaxEdits :
       SaveFails(i) =>
         /\ ed.saves[i].hadUpload => ed'.portrait.pendingUpload
         /\ ed.saves[i].hadDelete # <<>> => ed'.portrait.pendingDelete = ed.saves[i].hadDelete]_vars

(***************************************************************************)
(* Sheet editor, derived display (app.js): updateDerivedDisplay, started   *)
(* by every input and change event of the sheet, awaits computeMaxHP and   *)
(* then sets the hpmax field. Browser storage is blocked and the cloud is  *)
(* not ready, so scheduleSave arms no timer.                               *)
(***************************************************************************)

\* How many events start updateDerivedDisplay.
MaxDerived == 3

\* buildCanonicalFromForm, as far as computeMaxHP reads its result; the
\* attribute inputs other than Strength are blank.
buildCanonicalFromForm(fields) ==
  LET Capped(level, primaryAttribute, attrs) ==
        [k \in AttrKeySet |->
           Num(toInt(Num(attrs[k]),
                     IF primaryAttribute # <<>> /\ k = primaryAttribute THEN 1 ELSE 0,
                     getAttributeEffectiveCap(Num(level), k, primaryAttribute)))]
      Canon(level, primaryAttribute) ==
        [level |-> level, primaryAttribute |-> primaryAttribute,
         classKey |-> sanitizeText(fields.classSelect, ClassKeyMaxLen, FALSE),
         attributes |->
           Capped(level, primaryAttribute,
                  normalizeAttributes([k \in AttrKeySet |->
                     IF k = A_strength THEN fields.strength ELSE Str(<<>>)]))]
  IN Canon(clampLevel(fields.level), coerceAttrKey(fields.primaryAttribute))

\* A stale test that lets every call through.
StaleNever(seq, derivedSeq) == FALSE

\* if (seq !== derivedSeq) return; // stale
Stale(seq, derivedSeq) == seq # derivedSeq

\* What the sheet's inputs are changed to.
FieldInputs ==
  {[level |-> Str(l), classSelect |-> c, primaryAttribute |-> A_strength,
    strength |-> Str(<<"1">>)] :
     l \in {<<"1">>, <<"3">>}, c \in {K_war, K_rog}}

\* An input or change event of the sheet: the form changes, then
\* updateDerivedDisplay runs up to await computeMaxHP(...), then
\* scheduleSave runs. loadOk: whether loadGameXClasses will resolve for
\* this call.
InputEvent(fields, loadOk) ==
  /\ ed.open /\ ed.derivedSeq < MaxDerived
  /\ LET Started(e, seq) ==
           [e EXCEPT !.derivedSeq = seq,
                     !.derived = Append(@, [seq |-> seq, loadOk |-> loadOk,
                                            canon |-> buildCanonicalFromForm(fields)]),
                     !.lastDerived = [fields |-> fields, loadOk |-> loadOk]]
     IN ed' = scheduleSave(Started([ed EXCEPT !.fields = fields], ed.derivedSeq + 1))

\* await computeMaxHP(...) of call i settles: a stale call returns, the
\* latest sets the hpmax field.
DerivedResolve(i) ==
  /\ ed.open /\ i \in DOMAIN ed.derived
  /\ LET Ended(e) == [e EXCEPT !.derived = Without(@, i)]
         setNumberFieldByName(e, n) == [e EXCEPT !.hpmax = NatToText(n)]
         Resume(c) ==
           IF Stale(c.seq, ed.derivedSeq) THEN [Ended(ed) EXCEPT !.staleDropped = TRUE]
           ELSE setNumberFieldByName(Ended(ed),
                  computeMaxHP(Num(c.canon.level), c.canon.classKey, c.canon.attributes,
                               c.loadOk))
     IN ed' = Resume(ed.derived[i])

InitDerived ==
  /\ call = NoCall /\ normRun = NoNorm /\ saving = <<>>
  /\ NoWizard
  /\ ed = OpenEd(FALSE)

NextDerived ==
  \/ \E fields \in FieldInputs, loadOk \in BOOLEAN : InputEvent(fields, loadOk) /\ Rest
  \/ \E i \in 1..MaxDerived : DerivedResolve(i) /\ Rest

SpecDerived == InitDerived /\ [][NextDerived]_vars

(***************************************************************************)
(* C25: overlapping updateDerivedDisplay calls                             *)
(***************************************************************************)

\* The hpmax text of the rules for the fields of a call.
HpOf(fields, loadOk) ==
  LET L == ParseInt10(fields.level.s).v
      hpModel == IF ~loadOk \/ fields.classSelect = K_rog
                 THEN [base |-> HpLowBase, per |-> HpLowPer]
                 ELSE [base |-> HpHighBase, per |-> HpHighPer]
      str == ParseInt10(fields.strength.s).v
  IN NatToText(hpModel.base + hpModel.per * (L - 1) + str * (L + 2))

\* C25: only the most recently started updateDerivedDisplay call sets the
\* hpmax field, and once every call has settled the field holds the value
\* computed from the fields of the last call.
C25_LatestWins ==
  /\ [][ed'.hpmax # ed.hpmax =>
          \E i \in DOMAIN ed.derived :
             ed.derived[i].seq = ed.derivedSeq /\ ed'.derived = Without(ed.derived, i)]_vars
  /\ []((ed.open /\ ed.derivedSeq > 0 /\ ed.derived = <<>>) =>
          ed.hpmax = HpOf(ed.lastDerived.fields, ed.lastDerived.loadOk))

\* Three calls overlapped, the superseded ones returned without writing,
\* and the field holds the value of the last.
C25_Witness ==
  /\ ed.open /\ ed.derivedSeq = MaxDerived /\ ed.derived = <<>> /\ ed.staleDropped
  /\ ed.hpmax = HpOf(ed.lastDerived.fields, ed.lastDerived.loadOk)

(***************************************************************************)
(* Class list loader (character-schema.js, loadGameXClasses): the page's   *)
(* _gameXClassesPromise, the promises it has held, and the calls made.     *)
(* ed.classes.promise is the index in promises of the cached promise, 0    *)
(* for null. A promise settles, and the reactions to it run, within one    *)
(* microtask checkpoint: no other call of the page runs in between.        *)
(***************************************************************************)

\* How many times the page calls loadGameXClasses.
MaxLoadCalls == 4

\* A cache test that never finds the promise.
CachedNever(promise) == FALSE

\* if (_gameXClassesPromise) ...
Cached(promise) == promise # 0

\* What a call gets from promise p as it stands.
OutcomeOf(p) ==
  IF p.state = "fulfilled" THEN "data" ELSE IF p.state = "rejected" THEN "error" ELSE "waiting"

\* A call of loadGameXClasses: with a cached promise the call returns it;
\* otherwise it starts the fetch, caches the promise and awaits it.
LoadCall ==
  /\ ed.open /\ Len(ed.classes.callers) < MaxLoadCalls
  /\ LET c == ed.classes
         Shared == [c EXCEPT !.callers =
                      Append(@, [p |-> c.promise, creator |-> FALSE,
                                 outcome |-> OutcomeOf(c.promises[c.promise])])]
         Fetched(id) ==
           [c EXCEPT !.promise = id,
                     !.promises = Append(@, [state |-> "pending", stage |-> "fetch"]),
                     !.fetches = @ + 1,
                     !.callers = Append(@, [p |-> id, creator |-> TRUE, outcome |-> "waiting"])]
     IN ed' = [ed EXCEPT !.classes =
                 IF Cached(c.promise) THEN Shared ELSE Fetched(Len(c.promises) + 1)]

\* Promise id settles: every call waiting for it gets the outcome, and the
\* catch of the call that made it clears _gameXClassesPromise on an error.
PromiseSettled(c, id, state) ==
  [c EXCEPT !.promises[id].state = state,
            !.callers = [i \in DOMAIN @ |->
                           IF @[i].p = id
                           THEN [@[i] EXCEPT !.outcome = IF state = "fulfilled" THEN "data" ELSE "error"]
                           ELSE @[i]],
            !.promise = IF state = "rejected" THEN 0 ELSE @]

\* await fetch(...) of promise id settles: ok is res.ok; a network error
\* and a response that is not ok both reject the promise.
FetchResolve(id, ok) ==
  /\ ed.open /\ id \in DOMAIN ed.classes.promises
  /\ ed.classes.promises[id] = [state |-> "pending", stage |-> "fetch"]
  /\ ed' = [ed EXCEPT !.classes =
              IF ok THEN [@ EXCEPT !.promises[id].stage = "json"]
              ELSE PromiseSettled(@, id, "rejected")]

\* await res.json() of promise id settles.
JsonResolve(id, ok) ==
  /\ ed.open /\ id \in DOMAIN ed.classes.promises
  /\ ed.classes.promises[id] = [state |-> "pending", stage |-> "json"]
  /\ ed' = [ed EXCEPT !.classes = PromiseSettled(@, id, IF ok THEN "fulfilled" ELSE "rejected")]

InitLoader ==
  /\ call = NoCall /\ normRun = NoNorm /\ saving = <<>>
  /\ NoWizard
  /\ ed = OpenEd(FALSE)

NextLoader ==
  \/ LoadCall /\ Rest
  \/ \E id \in 1..MaxLoadCalls, ok \in BOOLEAN : FetchResolve(id, ok) /\ Rest
  \/ \E id \in 1..MaxLoadCalls, ok \in BOOLEAN : JsonResolve(id, ok) /\ Rest

SpecLoader == InitLoader /\ [][NextLoader]_vars

(***************************************************************************)
(* C26: one shared fetch of classes.json                                   *)
(***************************************************************************)

PromisesIn(c, state) == {id \in DOMAIN c.promises : c.promises[id].state = state}

\* C26: at most one fetch of classes.json is in flight; a call fetches
\* exactly when no load is in flight and none has succeeded, so after a
\* success nobody fetches again and after a failure the next call does;
\* and when a load fails, the cache is cleared and every call that was
\* given that load has the error.
C26_SharedFetch ==
  /\ [](Cardinality(PromisesIn(ed.classes, "pending")) <= 1)
  /\ [][Len(ed'.classes.callers) > Len(ed.classes.callers) =>
          ed'.classes.fetches =
            IF PromisesIn(ed.classes, "pending") \cup PromisesIn(ed.classes, "fulfilled") = {}
            THEN ed.classes.fetches + 1 ELSE ed.classes.fetches]_vars
  /\ [][\A id \in PromisesIn(ed'.classes, "rejected") \ PromisesIn(ed.classes, "rejected") :
          /\ ed'.classes.promise = 0
          /\ \A i \in DOMAIN ed'.classes.callers :
               ed'.classes.callers[i].p = id => ed'.classes.callers[i].outcome = "error"]_vars

\* A load that two calls shared failed, the next call fetched again and
\* succeeded, and a call after that got the data without a fetch.
C26_Witness ==
  /\ Len(ed.classes.callers) = 4 /\ ed.classes.fetches = 2
  /\ ed.classes.promises[1].state = "rejected" /\ ed.classes.promises[2].state = "fulfilled"
  /\ ed.classes.callers[1].outcome = "error" /\ ed.classes.callers[2] = [p |-> 1, creator |-> FALSE, outcome |-> "error"]
  /\ ed.classes.callers[3].outcome = "data" /\ ed.classes.callers[4] = [p |-> 2, creator |-> FALSE, outcome |-> "data"]

(***************************************************************************)
(* Profile step, portrait: the file input, uploadPortrait inside           *)
(* saveBuilder, the Upload Portrait handler and clearPortrait. One handler *)
(* of the page runs at a time.                                             *)
(***************************************************************************)

\* portraits/${ctx.editingUid}/${ctx.charId}/portrait.${safeExt} for a PNG file.
UploadedPath == getPortraitStoragePath(U_self, CharId) \o <<".", "p", "n", "g">>

\* The keys the portrait handlers hand to saveCharacterPatch.
F_rootPortraitPath == <<"portraitPath">>
F_rootPortraitUrl == <<"portraitUrl">>

\* { portraitPath, portraitUrl }; the URL is the storage service's.
PortraitPatch(path) ==
  (F_rootPortraitPath :> path) @@ (F_rootPortraitUrl :> IF path = <<>> THEN <<>> ELSE <<"u", "r", "l">>)

\* change of the file input: a file is chosen.
PickPortraitFile ==
  /\ OnPage(S_basics) /\ ~prof.pendingPortraitFile
  /\ prof' = [prof EXCEPT !.pendingPortraitFile = TRUE]
  /\ UNCHANGED <<db, loc, currentDoc, sel, att, run, hist, ui>>

\* await uploadPortrait() inside saveBuilder settles: on an error the
\* "Portrait upload failed" modal is shown.
ProfileUploadResolve(ok) ==
  /\ loc = S_basics /\ run.pc = "uploading"
  /\ IF ok
     THEN /\ prof' = [prof EXCEPT !.portraitPath = UploadedPath, !.pendingPortraitFile = FALSE]
          /\ run' = [run EXCEPT !.pc = "ensuring"]
     ELSE /\ prof' = prof
          /\ run' = [run EXCEPT !.pc = "confirmNoPortrait"]
  /\ UNCHANGED <<db, loc, currentDoc, sel, att, hist, ui>>

\* "Save without portrait?" is answered.
ProfileNoPortraitResolve(ok) ==
  /\ loc = S_basics /\ run.pc = "confirmNoPortrait"
  /\ IF ok
     THEN /\ run' = [run EXCEPT !.pc = "ensuring"]
          /\ UNCHANGED <<loc, currentDoc, sel, att, prof, hist, ui>>
     ELSE Finish(run.by, FALSE, FALSE, currentDoc, hist, Shown("Not saved.", ui.error))
  /\ UNCHANGED db

\* Upload Portrait is clicked: without a pending file the handler returns,
\* with one it awaits uploadPortrait.
UploadPortraitPress ==
  /\ OnPage(S_basics)
  /\ IF ~prof.pendingPortraitFile
     THEN /\ ui' = Shown("No file selected.", "")
          /\ run' = run
     ELSE /\ ui' = Shown("Uploading...", "")
          /\ run' = [pc |-> "portraitUploading"]
  /\ UNCHANGED <<db, loc, currentDoc, sel, att, prof, hist>>

\* await uploadPortrait() of the Upload Portrait handler settles; then
\* saveCharacterPatch(charRef, { portraitPath, portraitUrl }) is called.
UploadPortraitResolve(ok) ==
  /\ loc = S_basics /\ run.pc = "portraitUploading"
  /\ IF ok
     THEN /\ prof' = [prof EXCEPT !.portraitPath = UploadedPath, !.pendingPortraitFile = FALSE]
          /\ run' = [pc |-> "portraitWriting",
                     patch |-> sanitizeUpdatePatch(PortraitPatch(UploadedPath))]
          /\ ui' = ui
     ELSE /\ prof' = prof
          /\ run' = IdleRun
          /\ ui' = Shown("Error.", "Portrait upload failed.")
  /\ UNCHANGED <<db, loc, currentDoc, sel, att, hist>>

\* await saveCharacterPatch(...) of the Upload Portrait handler settles.
UploadPortraitWriteResolve(ok) ==
  /\ loc = S_basics /\ run.pc = "portraitWriting"
  /\ db' = IF ok THEN updateDoc(db, run.patch) ELSE db
  /\ ui' = IF ok THEN Shown("Portrait uploaded.", "") ELSE Shown("Error.", "Portrait upload failed.")
  /\ run' = IdleRun
  /\ UNCHANGED <<loc, currentDoc, sel, att, prof, hist>>

\* clearPortrait after its deleteObject, if any: the page forgets the
\* portrait and calls saveCharacterPatch(charRef, { portraitPath: "",
\* portraitUrl: "" }).
Cleared ==
  /\ prof' = [prof EXCEPT !.portraitPath = <<>>, !.pendingPortraitFile = FALSE]
  /\ run' = [pc |-> "clearWriting", patch |-> sanitizeUpdatePatch(PortraitPatch(<<>>))]

\* Clear Portrait is clicked: clearPortrait up to its first await.
ClearPortraitPress ==
  /\ OnPage(S_basics)
  /\ IF prof.portraitPath # <<>>
     THEN /\ run' = [pc |-> "portraitDeleting"]
          /\ prof' = prof
     ELSE Cleared
  /\ UNCHANGED <<db, loc, currentDoc, sel, att, hist, ui>>

\* await deleteObject(...) settles; a failure is only logged.
ClearDeleteResolve(ok) ==
  /\ loc = S_basics /\ run.pc = "portraitDeleting"
  /\ Cleared
  /\ UNCHANGED <<db, loc, currentDoc, sel, att, hist, ui>>

\* await saveCharacterPatch(...) of clearPortrait settles; nothing catches
\* a rejection.
ClearWriteResolve(ok) ==
  /\ loc = S_basics /\ run.pc = "clearWriting"
  /\ db' = IF ok THEN updateDoc(db, run.patch) ELSE db
  /\ run' = IdleRun
  /\ UNCHANGED <<loc, currentDoc, sel, att, prof, hist, ui>>

\* The stored documents the profile step is opened on: a new character and
\* one whose portrait an earlier Save stored.
PortraitDocs == {FreshDoc, [FreshDoc EXCEPT !.portraitPath = UploadedPath]}

InitPortrait ==
  /\ call = NoCall /\ normRun = NoNorm /\ ed = NoEd /\ saving = <<>>
  /\ db \in PortraitDocs
  /\ hist = NoHist /\ ui = LoadingUi
  /\ loc = S_basics /\ run = LoadingRun
  /\ currentDoc = NoDoc /\ sel = NoSelection /\ att = NoAtt /\ prof = NoProf

NextPortrait ==
  \/ \E ok \in MarkOutcomes : LoadProfilePage(ok) /\ UNCHANGED pureVars
  \/ NameInput(N_bo) /\ UNCHANGED pureVars
  \/ PickPortraitFile /\ UNCHANGED pureVars
  \/ \E by \in Buttons : ProfilePress(by) /\ UNCHANGED pureVars
  \/ \E ok \in BOOLEAN : ProfileConfirmResolve(ok) /\ UNCHANGED pureVars
  \/ \E ok \in BOOLEAN : ProfileUploadResolve(ok) /\ UNCHANGED pureVars
  \/ \E ok \in BOOLEAN : ProfileNoPortraitResolve(ok) /\ UNCHANGED pureVars
  \/ \E ok \in BOOLEAN : ProfileEnsureResolve(ok) /\ UNCHANGED pureVars
  \/ \E ok \in BOOLEAN : ProfileWriteResolve(ok) /\ UNCHANGED pureVars
  \/ UploadPortraitPress /\ UNCHANGED pureVars
  \/ \E ok \in BOOLEAN : UploadPortraitResolve(ok) /\ UNCHANGED pureVars
  \/ \E ok \in BOOLEAN : UploadPortraitWriteResolve(ok) /\ UNCHANGED pureVars
  \/ ClearPortraitPress /\ UNCHANGED pureVars
  \/ \E ok \in BOOLEAN : ClearDeleteResolve(ok) /\ UNCHANGED pureVars
  \/ \E ok \in BOOLEAN : ClearWriteResolve(ok) /\ UNCHANGED pureVars
  \/ Reload /\ UNCHANGED pureVars

SpecPortrait == InitPortrait /\ [][NextPortrait]_vars

(***************************************************************************)
(* C27: Clear Portrait and Upload Portrait persist the change              *)
(***************************************************************************)

\* C27: when Clear Portrait completes without error the stored document's
\* portrait path is empty, and when Upload Portrait completes without error
\* it is the uploaded storage path.
C27_PortraitPersisted ==
  [][/\ ClearWriteResolve(TRUE) => db'.portraitPath = <<>>
     /\ UploadPortraitWriteResolve(TRUE) => db'.portraitPath = UploadedPath]_vars

(***************************************************************************)
(* Data exporter (scripts/export-game-data.mjs): main, as far as the keys  *)
(* of the Classes and Techniques sheets decide it. A sheet is the sequence *)
(* of the key cells of its rows, as text; a row with a blank key cell has  *)
(* other cells filled in. The other sheets and columns are in order.       *)
(***************************************************************************)

\* How many rows a sheet has at most.
MaxRows == 2

\* What a key cell holds.
CellTexts == {<<"a">>, <<" ", "a">>, <<"b">>, <<>>}

Sheets == UNION {[1..n -> CellTexts] : n \in 0..MaxRows}

OutputFiles ==
  { "game-x-data.json", "classes.json", "class-features.json", "feats.json",
    "techniques.json", "export-report.json" }

\* An assertUnique that finds no duplicate.
assertUniqueLenient(values) == {}

\* assertUnique: the trimmed, non-blank values seen more than once; the
\* script dies when there is one.
assertUnique(values) ==
  {Trim(values[j]) : j \in {j \in DOMAIN values :
                              /\ Trim(values[j]) # <<>>
                              /\ \E i \in 1..(j - 1) : Trim(values[i]) = Trim(values[j])}}

\* die: the message is printed and the process exits with status 1.
Died(msg) == [exit |-> 1, error |-> msg, written |-> {}]

\* main
ExportMain(classKeys, techniqueNames) ==
  IF assertUnique(classKeys) # {} THEN Died("Classes.classKey must be unique.")
  ELSE IF \E i \in DOMAIN classKeys : Trim(classKeys[i]) = <<>>
       THEN Died("Classes: classKey is required")
  ELSE IF assertUnique(techniqueNames) # {}
       THEN Died("Techniques.techniqueName must be unique.")
  ELSE IF \E i \in DOMAIN techniqueNames : Trim(techniqueNames[i]) = <<>>
       THEN Died("Techniques: techniqueName is required")
  ELSE [exit |-> 0, error |-> "", written |-> OutputFiles]

ExportRequests ==
  {[fn |-> "export", done |-> FALSE, classKeys |-> c, techniqueNames |-> t] :
     c \in Sheets, t \in Sheets}

RunExport ==
  /\ call.fn = "export" /\ ~call.done
  /\ call' = [fn |-> "export", done |-> TRUE, classKeys |-> call.classKeys,
              techniqueNames |-> call.techniqueNames,
              res |-> ExportMain(call.classKeys, call.techniqueNames)]

InitExport ==
  /\ call \in ExportRequests
  /\ normRun = NoNorm /\ ed = NoEd /\ saving = <<>>
  /\ NoWizard

NextExport == RunExport /\ UNCHANGED normVars

SpecExport == InitExport /\ [][NextExport]_vars

(***************************************************************************)
(* Data exporter, ClassFeatures pass: the loop of main over the rows of    *)
(* the ClassFeatures sheet. A row is its classKey, level, rowType, name    *)
(* and chooseCount cells, as text; its other cells are blank. A null name  *)
(* is the empty text, which toStr(r.name) || null never yields otherwise.  *)
(***************************************************************************)

\* How many rows the ClassFeatures sheet has at most.
MaxFeatureRows == 3

R_group == <<"O", "P", "T", "I", "O", "N", "_", "G", "R", "O", "U", "P">>
R_option == <<"O", "P", "T", "I", "O", "N">>
R_feature == <<"F", "E", "A", "T", "U", "R", "E">>

\* toStr
toStr(v) == Trim(v)

\* toIntOrNull: blank cells and cells parseInt makes nothing of give null.
toIntOrNull(v) ==
  LET Parsed(p) == [isNull |-> toStr(v) = <<>> \/ ~p.ok, n |-> IF p.ok THEN p.v ELSE 0]
  IN Parsed(ParseInt10(toStr(v)))

\* let currentGroup = null: no group is open. An open group is named by
\* its bucket and its place in it.
NoGroup == [classKey |-> <<>>, at |-> 0]

\* A pass in which a feature row leaves the group open.
CloseGroupNever(currentGroup) == currentGroup

\* currentGroup = null; // Any non-option row closes the current group
CloseGroup(currentGroup) == NoGroup

\* ensureClassBucket
ensureClassBucket(featuresByClass, classKey) ==
  IF classKey \in DOMAIN featuresByClass THEN featuresByClass
  ELSE featuresByClass @@ (classKey :> <<>>)

\* One turn of the loop for row r: st holds featuresByClass, currentGroup
\* and how many warnings were pushed.
ClassFeatureRow(st, r) ==
  LET Skipped == [st EXCEPT !.warnings = @ + 1]
      Base(classKey, level) ==
        [classKey |-> classKey, level |-> level, name |-> toStr(r.name)]
      Group(base, count) ==
        [type |-> "optionGroup", classKey |-> base.classKey, level |-> base.level,
         name |-> base.name, chooseCount |-> IF count.isNull THEN 1 ELSE count.n,
         options |-> <<>>]
      FeatureOf(base) ==
        [type |-> "feature", classKey |-> base.classKey, level |-> base.level,
         name |-> base.name]
      OptionOf(base) ==
        [type |-> "option", classKey |-> base.classKey, level |-> base.level,
         name |-> base.name]
      Turn(buckets, base, rowType) ==
        IF rowType = R_group
        THEN [st EXCEPT !.featuresByClass =
                          [buckets EXCEPT ![base.classKey] = Append(@, Group(base, toIntOrNull(r.chooseCount)))],
                        !.currentGroup = [classKey |-> base.classKey,
                                          at |-> Len(buckets[base.classKey]) + 1]]
        ELSE IF rowType = R_option /\ st.currentGroup = NoGroup
        THEN [st EXCEPT !.featuresByClass =
                          [buckets EXCEPT ![base.classKey] = Append(@, FeatureOf(base))],
                        !.warnings = @ + 1]
        ELSE IF rowType = R_option
        THEN [st EXCEPT !.featuresByClass =
                          [buckets EXCEPT ![st.currentGroup.classKey][st.currentGroup.at].options =
                                             Append(@, OptionOf(base))],
                        !.warnings =
                          IF buckets[st.currentGroup.classKey][st.currentGroup.at].classKey # base.classKey
                             \/ buckets[st.currentGroup.classKey][st.currentGroup.at].level # base.level
                          THEN @ + 1 ELSE @]
        ELSE [st EXCEPT !.featuresByClass =
                          [buckets EXCEPT ![base.classKey] = Append(@, FeatureOf(base))],
                        !.currentGroup = CloseGroup(@)]
      Row(classKey, level) ==
        IF classKey = <<>> THEN Skipped
        ELSE IF level.isNull THEN Skipped
        ELSE Turn(ensureClassBucket(st.featuresByClass, classKey),
                  Base(classKey, level.n), toStr(r.rowType))
  IN Row(toStr(r.classKey), toIntOrNull(r.level))

\* for (const r of cfRows) ...
RECURSIVE ClassFeaturesLoop(_, _)
ClassFeaturesLoop(st, cfRows) ==
  IF cfRows = <<>> THEN st
  ELSE ClassFeaturesLoop(ClassFeatureRow(st, Head(cfRows)), Tail(cfRows))

\* The ClassFeatures pass of main.
ClassFeaturesPass(cfRows) ==
  ClassFeaturesLoop([featuresByClass |-> <<>>, currentGroup |-> NoGroup, warnings |-> 0],
                    cfRows)

\* The cells of a row apart from its name; only OPTION_GROUP rows fill in
\* chooseCount.
RowInputs ==
  {r \in [classKey : {<<"a">>, <<"b", " ">>, <<>>}, level : {<<"1">>, <<>>},
          rowType : {R_group, R_option, R_feature}, chooseCount : {<<>>, <<"2">>}] :
     r.chooseCount # <<>> => r.rowType = R_group}

\* The sheets of at most MaxFeatureRows rows; the name cell of a row tells
\* its place.
FeatureSheets ==
  {[i \in DOMAIN cells |->
      [classKey |-> cells[i].classKey, level |-> cells[i].level,
       rowType |-> cells[i].rowType, name |-> <<"r">> \o NatToText(i),
       chooseCount |-> cells[i].chooseCount]] :
     cells \in UNION {[1..n -> RowInputs] : n \in 0..MaxFeatureRows}}

RunClassFeatures ==
  /\ call.fn = "classFeatures" /\ ~call.done
  /\ call' = [fn |-> "classFeatures", done |-> TRUE, cfRows |-> call.cfRows,
              res |-> ClassFeaturesPass(call.cfRows)]

InitFeatures ==
  /\ call \in {[fn |-> "classFeatures", done |-> FALSE, cfRows |-> sheet] :
                 sheet \in FeatureSheets}
  /\ normRun = NoNorm /\ ed = NoEd /\ saving = <<>>
  /\ NoWizard

NextFeatures == RunClassFeatures /\ UNCHANGED normVars

SpecFeatures == InitFeatures /\ [][NextFeatures]_vars

(***************************************************************************)
(* C28: option groups are runs of rows                                     *)
(***************************************************************************)

\* Row i of the sheet has a classKey and a level.
HasKeyAndLevel(sheet, i) ==
  /\ \E j \in DOMAIN sheet[i].classKey : sheet[i].classKey[j] # " "
  /\ \E j \in DOMAIN sheet[i].level : sheet[i].level[j] \in DigitChars

\* The OPTION_GROUP row whose group is open when row i is read, 0 if none:
\* the last row before i with classKey and level that is not an OPTION row,
\* if that row is an OPTION_GROUP row.
OpenAt(sheet, i) ==
  LET before == {j \in 1..(i - 1) : HasKeyAndLevel(sheet, j) /\ sheet[j].rowType # R_option}
      last == IF before = {} THEN 0 ELSE CHOOSE j \in before : \A k \in before : k <= j
  IN IF last # 0 /\ sheet[last].rowType = R_group THEN last ELSE 0

\* The places of set, in ascending order.
RECURSIVE Ascending(_)
Ascending(set) ==
  IF set = {} THEN <<>>
  ELSE LET least == CHOOSE j \in set : \A k \in set : j <= k
       IN <<least>> \o Ascending(set \ {least})

\* What row i is emitted as.
EmittedRow(sheet, i) ==
  LET key == Trim(sheet[i].classKey)
      Named(type) == [type |-> type, classKey |-> key, level |-> 1, name |-> sheet[i].name]
      mine == Ascending({k \in DOMAIN sheet :
                           /\ HasKeyAndLevel(sheet, k) /\ sheet[k].rowType = R_option
                           /\ OpenAt(sheet, k) = i})
  IN IF sheet[i].rowType = R_group
     THEN [type |-> "optionGroup", classKey |-> key, level |-> 1, name |-> sheet[i].name,
           chooseCount |-> IF sheet[i].chooseCount = <<>> THEN 1 ELSE 2,
           options |-> [x \in DOMAIN mine |->
                          [type |-> "option", classKey |-> Trim(sheet[mine[x]].classKey),
                           level |-> 1, name |-> sheet[mine[x]].name]]]
     ELSE Named("feature")

\* The entries of the bucket of class key: its rows with classKey and level
\* that are not options of an open group, in sheet order.
BucketOf(sheet, key) ==
  LET own == Ascending({i \in DOMAIN sheet :
                          /\ HasKeyAndLevel(sheet, i) /\ Trim(sheet[i].classKey) = key
                          /\ sheet[i].rowType = R_option => OpenAt(sheet, i) = 0})
  IN [x \in DOMAIN own |-> EmittedRow(sheet, own[x])]

\* C28: read in sheet order, an OPTION_GROUP row opens a group (chooseCount
\* 1 unless given), an OPTION row joins the group of the last OPTION_GROUP
\* row when no row of another type with classKey and level lies between and
\* is a feature of its own otherwise, any other row is a feature and closes
\* the group, and a row without classKey or level is left out and changes
\* nothing.
C28_GroupsAreRuns ==
  (call.fn = "classFeatures" /\ call.done) =>
    /\ \A key \in DOMAIN call.res.featuresByClass :
         call.res.featuresByClass[key] = BucketOf(call.cfRows, key)
    /\ \A key \in {<<"a">>, <<"b">>} \ DOMAIN call.res.featuresByClass :
         BucketOf(call.cfRows, key) = <<>>

\* An OPTION_GROUP row without chooseCount, then a FEATURE row without
\* classKey, then an OPTION row, which joined the group.
C28_Witness ==
  /\ call.fn = "classFeatures" /\ call.done
  /\ Len(call.cfRows) = 3
  /\ call.cfRows[1].rowType = R_group /\ call.cfRows[1].classKey = <<"a">>
  /\ call.cfRows[2].rowType = R_feature /\ call.cfRows[2].classKey = <<>>
  /\ call.cfRows[3].rowType = R_option
  /\ <<"a">> \in DOMAIN call.res.featuresByClass
  /\ Len(call.res.featuresByClass[<<"a">>]) = 1
  /\ call.res.featuresByClass[<<"a">>][1].type = "optionGroup"
  /\ Len(call.res.featuresByClass[<<"a">>][1].options) = 1
  /\ call.res.featuresByClass[<<"a">>][1].chooseCount = 1

(***************************************************************************)
(* C20: duplicates in the workbook                                         *)
(***************************************************************************)

\* Two rows of the sheet hold the same key.
SameKeyTwice(sheet) == \E i, j \in DOMAIN sheet : i < j /\ sheet[i] = sheet[j]

\* C20: when two rows of the Techniques sheet have the same techniqueName,
\* or two rows of the Classes sheet the same classKey, the exporter exits
\* with an error and writes none of its output files.
C20_FailsOnDuplicates ==
  (/\ call.fn = "export" /\ call.done
   /\ SameKeyTwice(call.classKeys) \/ SameKeyTwice(call.techniqueNames)) =>
    /\ call.res.exit # 0 /\ call.res.error # ""
    /\ call.res.written = {}

\* A workbook with sound classes and one technique name used twice was refused.
C20_Witness ==
  /\ call.fn = "export" /\ call.done
  /\ call.classKeys = <<<<"a">>, <<"b">>>>
  /\ call.techniqueNames = <<<<"a">>, <<"a">>>>
  /\ call.res = Died("Techniques.techniqueName must be unique.")

====
